---- MODULE Spec2Model ----
(***************************************************************************)
(* OpenGrokMCP: the two OpenGrok clients (html-scrape and rest-api), the   *)
(* REST API client underneath the rest-api one, their normalisers, the     *)
(* tool-call handlers, the credential holder, the start of the server      *)
(* process, and registerMcpServer of the editor extension.                 *)
(*                                                                         *)
(* Spec: a state is the server as started (its backend mode, its           *)
(* configuration) together with the record of the last facade invocation:  *)
(* which operation ran, with which arguments, which requests it issued,    *)
(* which replies the upstream gave, which normalisers it applied, and how  *)
(* it ended; when the invocation came through the tool-call handler, the   *)
(* tool request and the handler's result are recorded too.                 *)
(*                                                                         *)
(* Start: the server process from getConfig on: initializeClientAsync with *)
(* the credential holder and the client it constructs, main connecting the *)
(* transport, and tool calls handled after that.                           *)
(*                                                                         *)
(* Concurrent: facade calls in flight together on one html-scrape client,  *)
(* interleaved at their awaits.                                            *)
(*                                                                         *)
(* Extension: activations of the editor extension on the mcp.json file.    *)
(***************************************************************************)
EXTENDS Integers, Sequences, FiniteSets, TLC

VARIABLES mode, config, op, args, calls, replies, norm, outcome, request, result,
          pc, authHandler, openGrokClient, errors, serialized, tasks, latest,
          mcpJson, activations

vars == <<mode, config, op, args, calls, replies, norm, outcome, request, result,
          pc, authHandler, openGrokClient, errors, serialized, tasks, latest,
          mcpJson, activations>>

\* the server process: where main is, the credential holder and the client
\* it has assigned, what it wrote to console.error, and the last string a
\* call of getCookieString returned
process == <<pc, authHandler, openGrokClient, errors, serialized>>

\* the calls in flight together on one client, and the frame of the call
\* begun last
concurrent == <<tasks, latest>>

\* the editor extension: the file mcp.json, and how each activation ended
extension == <<mcpJson, activations>>

(***************************************************************************)
(* Bounds of the model.                                                    *)
(***************************************************************************)
\* longest HTML search page, counted in anchor elements
MaxAnchors == 3
\* most hit records in a REST search response, all files together
MaxHits == 3
\* longest cookie string, counted in segments between ";"
MaxSegments == 3
\* most facade calls in flight together
MaxTasks == 2
\* most activations of the editor extension
MaxActivations == 2

(***************************************************************************)
(* Small domains the inputs are drawn from.                                *)
(***************************************************************************)
Modes == {"html-scrape", "rest-api"}

\* status codes the upstream may answer with
Statuses == {200, 201, 202, 204, 401, 403, 404, 500}

\* a project argument: missing, empty, or a name
Undefined == "<undefined>"
Projects == {Undefined, "", "p"}

Paths == {"a", "b"}

\* getConfig: OPENGROK_DEFAULT_PROJECT set or not
Configs == {[defaultProject |-> Undefined], [defaultProject |-> "dp"]}

\* the maxResults argument of search (50 is the default of the signature)
DefaultMaxResults == 50
MaxResultsArgs == {0, 1, DefaultMaxResults}

\* JavaScript truthiness of an optional string argument
Truthy(s) == s # Undefined /\ s # ""

\* `x || dflt` on an optional string
OrElse(s, dflt) == IF Truthy(s) THEN s ELSE dflt

(***************************************************************************)
(* parseInt(text, 10) on a string given as a sequence of characters: the   *)
(* value of the longest prefix of decimal digits, NaN when that prefix is  *)
(* empty.  NaN is encoded as -1 (no digit string parses to a negative).    *)
(***************************************************************************)
NaN == -1

Digits == {"0", "1", "2", "3", "4", "5", "6", "7", "8", "9"}

DigitVal(c) ==
  CASE c = "0" -> 0 [] c = "1" -> 1 [] c = "2" -> 2 [] c = "3" -> 3
    [] c = "4" -> 4 [] c = "5" -> 5 [] c = "6" -> 6 [] c = "7" -> 7
    [] c = "8" -> 8 [] c = "9" -> 9

RECURSIVE DigitPrefixValue(_, _, _)
DigitPrefixValue(text, i, acc) ==
  IF i > Len(text) \/ text[i] \notin Digits
  THEN acc
  ELSE DigitPrefixValue(text, i + 1, acc * 10 + DigitVal(text[i]))

parseInt(text) ==
  IF Len(text) = 0 \/ text[1] \notin Digits
  THEN NaN
  ELSE DigitPrefixValue(text, 1, 0)

\* `n || 0` on a number: NaN and 0 are falsy
NumOrZero(n) == IF n = NaN \/ n = 0 THEN 0 ELSE n

(***************************************************************************)
(* Errors.  A message is the sequence of its segments, outermost first:    *)
(* `Failed to X: ${error.message}` puts one segment in front of the        *)
(* message it wraps.  A segment that interpolates a status code carries    *)
(* it in `code` (NoCode when the text has none).                           *)
(***************************************************************************)
NoCode == 0

Seg(text, code) == [text |-> text, code |-> code]

Throw(msg) == [kind |-> "throw", msg |-> msg]

Return(value) == [kind |-> "return", value |-> value]

\* try { ... } catch (error) { throw new Error(`${prefix}: ${error.message}`) }
Rethrow(prefix, o) ==
  IF o.kind = "throw" THEN Throw(<<Seg(prefix, NoCode)>> \o o.msg) ELSE o

AuthText == "Authentication failed"

(***************************************************************************)
(* The upstream and the transport adapters.                                *)
(***************************************************************************)
NoBody == <<>>

\* a timeout, a refused connection, a DNS failure: no response at all
NetErr == [kind |-> "neterr", status |-> 0, data |-> NoBody]

Response(status, data) == [kind |-> "response", status |-> status, data |-> data]

UpstreamReplies(bodies) ==
  {Response(s, b) : s \in Statuses, b \in bodies} \cup {NetErr}

\* validateStatus of the html-scrape adapter
validateStatusHtml(status) == TRUE

\* validateStatus of the rest-api adapter
validateStatusApiBelow400(status) == status >= 200 /\ status < 400

validateStatusApi(status) == status >= 200 /\ status < 500

\* what `await this.client.get(...)` evaluates to: the response, or the
\* error axios rejects with (a network error, or a status the adapter's
\* validateStatus refuses: "Request failed with status code N")
Await(valid, reply) ==
  IF reply.kind = "neterr"
  THEN Throw(<<Seg("Network Error", NoCode)>>)
  ELSE IF valid
       THEN Return(reply)
       ELSE Throw(<<Seg("Request failed with status code", reply.status)>>)

AwaitHtml(reply) == Await(validateStatusHtml(reply.status), reply)

AwaitApi(reply) == Await(validateStatusApi(reply.status), reply)

Request(method, url) == [method |-> method, url |-> url]

(***************************************************************************)
(* HTML pipeline: the search page.                                         *)
(*                                                                         *)
(* A page is the sequence of its anchor elements                           *)
(*   <a class="CLS" href="/xref/PATH#LINE">INNER</a>                       *)
(* LINE is the text after '#', a sequence of characters (empty when the    *)
(* href has no fragment); INNER is the inner markup as a sequence of       *)
(* tokens, "\n" being a line terminator.                                   *)
(***************************************************************************)
Anchor(cls, path, line, inner) ==
  [cls |-> cls, path |-> path, line |-> line, inner |-> inner]

Anchors ==
  { Anchor("s", "a", <<"7">>, <<"x">>),
    Anchor("s", "a", <<"0", "7">>, <<"<b>", "y", "</b>">>),
    Anchor("s", "a", <<"1", "2">>, <<"x">>),
    Anchor("s", "b", <<"7">>, <<"z">>),
    Anchor("s", "b", <<"0">>, <<"x">>),
    Anchor("s", "a", <<>>, <<"x">>),
    Anchor("s", "b", <<"7">>, <<"x", "\n", "y">>),
    Anchor("t", "a", <<"7">>, <<"x">>) }

RECURSIVE SeqsUpTo(_, _)
SeqsUpTo(S, n) ==
  IF n = 0
  THEN {<<>>}
  ELSE LET shorter == SeqsUpTo(S, n - 1)
       IN  shorter \cup {Append(s, e) : s \in {t \in shorter : Len(t) = n - 1}, e \in S}

SearchPages == SeqsUpTo(Anchors, MaxAnchors)

\* resultPattern: /<a\s+class="s"\s+href="\/xref\/([^"]+?)#(\d+)"[^>]*>(.*?)<\/a>/g
resultPatternAnyClassS(el) == el.cls = "s"

resultPattern(el) ==
  /\ el.cls = "s"
  /\ el.path # ""
  /\ Len(el.line) >= 1
  /\ \A i \in 1..Len(el.line) : el.line[i] \in Digits
  /\ \A i \in 1..Len(el.inner) : el.inner[i] # "\n"

\* simplePattern: /<a class="s"/g
simplePattern(el) == el.cls = "s"

SearchResult(path, line, snippet, project) ==
  [path |-> path, line |-> line, snippet |-> snippet, project |-> project]

\* the key `${filePath}:${line}`; line is a number, so the text after the
\* last ':' is the line and the pair is recovered from the key
KeyWithoutLine(filePath, line) == <<filePath, 0>>

Key(filePath, line) == <<filePath, line>>

RECURSIVE parseSearchResultsLoop(_, _, _, _, _)
parseSearchResultsLoop(html, project, i, seen, results) ==
  IF i > Len(html)
  THEN results
  ELSE IF ~resultPattern(html[i])
       THEN parseSearchResultsLoop(html, project, i + 1, seen, results)
       ELSE LET filePath == html[i].path
                line == NumOrZero(parseInt(html[i].line))
                fullSnippet == html[i].inner
                key == Key(filePath, line)
            IN  IF key \notin seen
                THEN parseSearchResultsLoop(html, project, i + 1, seen \cup {key},
                       Append(results,
                         SearchResult(filePath, line, fullSnippet, OrElse(project, "unknown"))))
                ELSE parseSearchResultsLoop(html, project, i + 1, seen, results)

parseSearchResults(html, project) ==
  parseSearchResultsLoop(html, project, 1, {}, <<>>)

\* results.slice(0, maxResults)
TakeAll(s, n) == s

Take(s, n) == IF n >= Len(s) THEN s ELSE SubSeq(s, 1, n)

Normalised(fn, arg, out) == [fn |-> fn, arg |-> arg, out |-> out]

(***************************************************************************)
(* HTML pipeline: the file page (/xref/PATH).                              *)
(*                                                                         *)
(* A page is the sequence of its blocks; a block has a tag name and its    *)
(* inner markup as a sequence of characters.                               *)
(***************************************************************************)
Block(tag, inner) == [tag |-> tag, inner |-> inner]

StartsWith(s, i, pat) ==
  /\ i + Len(pat) - 1 <= Len(s)
  /\ \A k \in 1..Len(pat) : s[i + k - 1] = pat[k]

\* s.replace(/pat/g, rep) for a literal pat: left to right, replaced text
\* is not scanned again
RECURSIVE ReplaceAllFrom(_, _, _, _)
ReplaceAllFrom(s, i, pat, rep) ==
  IF i > Len(s)
  THEN <<>>
  ELSE IF StartsWith(s, i, pat)
       THEN rep \o ReplaceAllFrom(s, i + Len(pat), pat, rep)
       ELSE <<s[i]>> \o ReplaceAllFrom(s, i + 1, pat, rep)

ReplaceAll(s, pat, rep) == ReplaceAllFrom(s, 1, pat, rep)

\* s.replace(/<[^>]+>/g, ''): a '<', at least one character other than
\* '>', and the first '>' after them
RECURSIVE StripTagsFrom(_, _)
StripTagsFrom(s, i) ==
  IF i > Len(s)
  THEN <<>>
  ELSE LET closers == {j \in (i + 2)..Len(s) : s[j] = ">"}
       IN  IF s[i] = "<" /\ i + 1 <= Len(s) /\ s[i + 1] # ">" /\ closers # {}
           THEN StripTagsFrom(s, (CHOOSE j \in closers : \A k \in closers : j <= k) + 1)
           ELSE <<s[i]>> \o StripTagsFrom(s, i + 1)

StripTags(s) == StripTagsFrom(s, 1)

WhiteSpace == {" ", "\n", "\t"}

\* s.trim()
RECURSIVE Trim(_)
Trim(s) ==
  IF Len(s) = 0
  THEN s
  ELSE IF s[1] \in WhiteSpace
       THEN Trim(Tail(s))
       ELSE IF s[Len(s)] \in WhiteSpace
            THEN Trim(SubSeq(s, 1, Len(s) - 1))
            ELSE s

EmptyContent == <<>>

Sentinel == <<"File content could not be extracted">>

\* html.match(/<pre[^>]*>([\s\S]*?)<\/pre>/): the first pre block
extractFileContentAmpFirst(html) ==
  LET pres == {i \in 1..Len(html) : html[i].tag = "pre"}
  IN  IF pres # {}
      THEN LET preMatch == html[CHOOSE i \in pres : \A j \in pres : i <= j].inner
           IN  Trim(ReplaceAll(ReplaceAll(ReplaceAll(StripTags(preMatch),
                      <<"&", "a", "m", "p", ";">>, <<"&">>),
                      <<"&", "l", "t", ";">>, <<"<">>),
                      <<"&", "g", "t", ";">>, <<">">>))
      ELSE Sentinel

extractFileContent(html) ==
  LET pres == {i \in 1..Len(html) : html[i].tag = "pre"}
  IN  IF pres # {}
      THEN LET preMatch == html[CHOOSE i \in pres : \A j \in pres : i <= j].inner
           IN  Trim(ReplaceAll(ReplaceAll(ReplaceAll(StripTags(preMatch),
                      <<"&", "l", "t", ";">>, <<"<">>),
                      <<"&", "g", "t", ";">>, <<">">>),
                      <<"&", "a", "m", "p", ";">>, <<"&">>))
      ELSE Sentinel

\* pages that come with every status
PlainFilePages ==
  { <<>>,
    <<Block("div", <<"n">>)>>,
    <<Block("pre", <<"x">>)>> }

EscapedPage ==
  <<Block("pre", <<" ", "&", "l", "t", ";", "b", "&", "g", "t", ";", "<", "i", ">", "&", "a", "m", "p", ";", "g", "t", ";", "<", "/", "i", ">", "\n">>)>>

HelloPage ==
  <<Block("pre", <<"H", "e", "l", "l", "o", " ", "&", "a", "m", "p", ";", " ", "&", "l", "t", ";", "w", "o", "r", "l", "d", "&", "g", "t", ";">>)>>

FilePages ==
  PlainFilePages \cup
  { <<Block("div", <<"n">>), Block("pre", <<" ", "<", "b", ">", "y", "<", "/", "b", ">", "\n">>)>>,
    <<Block("pre", <<"&", "a", "m", "p", ";", "l", "t", ";">>), Block("pre", <<"x">>)>>,
    EscapedPage,
    HelloPage }

FileContent(path, content, project) ==
  [path |-> path, content |-> content, project |-> project]

(***************************************************************************)
(* HTML pipeline: the main page (project list).                            *)
(* A page is the sequence of its option elements, value and label.         *)
(***************************************************************************)
Option(value, label) == [value |-> value, label |-> label]

MainPages ==
  { <<>>,
    <<Option(<<"p">>, <<"P">>), Option(<<>>, <<" ", "q">>)>>,
    <<Option(<<>>, <<"q">>), Option(<<" ">>, <<"r">>)>>,
    <<Option(<<" ", "p">>, <<>>), Option(<<>>, <<>>)>> }

\* the loop taking the value attribute alone
RECURSIVE parseProjectsLoopValueOnly(_, _, _)
parseProjectsLoopValueOnly(html, i, projects) ==
  IF i > Len(html)
  THEN projects
  ELSE LET projectName == html[i].value
       IN  IF projectName # <<>> /\ Trim(projectName) # <<>>
           THEN parseProjectsLoopValueOnly(html, i + 1, Append(projects, Trim(projectName)))
           ELSE parseProjectsLoopValueOnly(html, i + 1, projects)

RECURSIVE parseProjectsLoop(_, _, _)
parseProjectsLoop(html, i, projects) ==
  IF i > Len(html)
  THEN projects
  ELSE LET projectName == IF html[i].value # <<>> THEN html[i].value ELSE html[i].label
       IN  IF projectName # <<>> /\ Trim(projectName) # <<>>
           THEN parseProjectsLoop(html, i + 1, Append(projects, Trim(projectName)))
           ELSE parseProjectsLoop(html, i + 1, projects)

parseProjects(html) == parseProjectsLoop(html, 1, <<>>)

(***************************************************************************)
(* A run of one facade operation: the requests it issued, the replies it   *)
(* got, the normaliser applications it made, and how it ended.             *)
(***************************************************************************)
Run(cs, rs, ns, o) == [calls |-> cs, replies |-> rs, norm |-> ns, outcome |-> o]

SearchTypes == {"full", "defs", "refs", "path", "hist", "other"}

Languages == {Undefined, "java"}

IsAuthStatusOnly401(status) == status = 401

IsAuthStatus(status) == status = 401 \/ status = 403

(***************************************************************************)
(* OpenGrokClient, html-scrape.                                            *)
(***************************************************************************)
\* params of GET /search; a property the switch does not set is undefined
Html_searchParams(query, project, searchType, language) ==
  [project |-> project, xrd |-> "", nn |-> "1",
   defs |-> IF searchType = "defs" THEN query ELSE Undefined,
   refs |-> IF searchType = "refs" THEN query ELSE Undefined,
   path |-> IF searchType = "path" THEN query ELSE Undefined,
   hist |-> IF searchType = "hist" THEN query ELSE Undefined,
   full |-> IF searchType \notin {"defs", "refs", "path", "hist"} THEN query ELSE Undefined,
   type |-> IF Truthy(language) THEN language ELSE ""]

\* the guard `if (!project)` of search
Html_projectMissingOnlyUndefined(project) == project = Undefined

Html_projectMissing(project) == ~Truthy(project)

Html_search(query, project, searchType, language, maxResults, reply) ==
  IF Html_projectMissing(project)
  THEN Run(<<>>, <<>>, <<>>,
           Throw(<<Seg("Project is required for OpenGrok search. Please specify a project.", NoCode)>>))
  ELSE LET cs == <<[method |-> "GET", url |-> <<"/search">>,
                    params |-> Html_searchParams(query, project, searchType, language)]>>
           rs == <<reply>>
           response == AwaitHtml(reply)
       IN  IF response.kind = "throw"
           THEN Run(cs, rs, <<>>, Rethrow("OpenGrok search failed", response))
           ELSE IF IsAuthStatus(reply.status)
           THEN Run(cs, rs, <<>>,
                    Rethrow("OpenGrok search failed",
                      Throw(<<Seg(AuthText, reply.status)>>)))
           ELSE IF reply.status # 200
           THEN Run(cs, rs, <<>>,
                    Rethrow("OpenGrok search failed",
                      Throw(<<Seg("OpenGrok search failed with status", reply.status)>>)))
           ELSE LET results == parseSearchResults(reply.data, project)
                IN  Run(cs, rs,
                        <<Normalised("parseSearchResults", reply.data, results)>>,
                        Return(Take(results, maxResults)))

\* the fallback condition: `response.status === 404 && project`
fallbackToProjectNever(status, project) == status = 404 /\ ~Truthy(project)

fallbackToProjectAlways(status, project) == status # 200 /\ Truthy(project)

fallbackToProject(status, project) == status = 404 /\ Truthy(project)

Html_getFileContent(path, project, reply1, reply2) ==
  LET url1 == <<"/xref", path>>
      url2 == <<"/xref", project, path>>
      first == AwaitHtml(reply1)
      retry == first.kind = "return" /\ fallbackToProject(reply1.status, project)
      cs == IF retry THEN <<Request("GET", url1), Request("GET", url2)>>
                     ELSE <<Request("GET", url1)>>
      rs == IF retry THEN <<reply1, reply2>> ELSE <<reply1>>
      last == IF retry THEN reply2 ELSE reply1
      response == IF retry THEN AwaitHtml(reply2) ELSE first
  IN  IF response.kind = "throw"
      THEN Run(cs, rs, <<>>, Rethrow("Failed to get file content", response))
      ELSE IF IsAuthStatus(last.status)
      THEN Run(cs, rs, <<>>,
               Rethrow("Failed to get file content", Throw(<<Seg(AuthText, last.status)>>)))
      ELSE IF last.status # 200
      THEN Run(cs, rs, <<>>,
               Rethrow("Failed to get file content",
                 Throw(<<Seg("Failed to get file", last.status)>>)))
      ELSE LET content == extractFileContent(last.data)
           IN  Run(cs, rs, <<Normalised("extractFileContent", last.data, content)>>,
                   Return(FileContent(path, content, OrElse(project, ""))))

CrossReference(symbol, file, line, type) ==
  [symbol |-> symbol, file |-> file, line |-> line, type |-> type]

Html_getCrossReferences(symbol, project, reply) ==
  LET cs == <<[method |-> "GET", url |-> <<"/search">>,
               params |-> [q |-> <<"definitions:", symbol>>,
                           project |-> IF Truthy(project) THEN project ELSE Undefined]]>>
      rs == <<reply>>
      response == AwaitHtml(reply)
  IN  IF response.kind = "throw"
      THEN Run(cs, rs, <<>>, Rethrow("Failed to get cross-references", response))
      ELSE IF IsAuthStatus(reply.status)
      THEN Run(cs, rs, <<>>,
               Rethrow("Failed to get cross-references", Throw(<<Seg(AuthText, reply.status)>>)))
      ELSE LET searchResults == parseSearchResults(reply.data, project)
               ref(r) == CrossReference(symbol, r.path, r.line, "definition")
           IN  Run(cs, rs,
                   <<Normalised("parseSearchResults", reply.data, searchResults)>>,
                   Return([i \in 1..Len(searchResults) |-> ref(searchResults[i])]))

Html_listProjects(reply) ==
  LET cs == <<Request("GET", <<"/">>)>>
      rs == <<reply>>
      response == AwaitHtml(reply)
  IN  IF response.kind = "throw"
      THEN Run(cs, rs, <<>>, Rethrow("Failed to list projects", response))
      ELSE IF IsAuthStatus(reply.status)
      THEN Run(cs, rs, <<>>,
               Rethrow("Failed to list projects", Throw(<<Seg(AuthText, reply.status)>>)))
      ELSE IF reply.status # 200
      THEN Run(cs, rs, <<>>,
               Rethrow("Failed to list projects",
                 Throw(<<Seg("OpenGrok API error", reply.status)>>)))
      ELSE LET projects == parseProjects(reply.data)
           IN  Run(cs, rs, <<Normalised("parseProjects", reply.data, projects)>>,
                   Return(projects))

(***************************************************************************)
(* OpenGrokApiClient (REST API, /api/v1).                                  *)
(*                                                                         *)
(* Most methods have one shape: await the request; 401/403 throws the      *)
(* authentication failure; any status other than the expected one throws   *)
(* `${label}: ${status}`; otherwise response.data is returned; the catch   *)
(* clause rethrows everything as `${label}: ${error.message}`.             *)
(***************************************************************************)
ApiChecked(label, req, okStatus, reply) ==
  LET cs == <<req>>
      rs == <<reply>>
      response == AwaitApi(reply)
  IN  IF response.kind = "throw"
      THEN Run(cs, rs, <<>>, Rethrow(label, response))
      ELSE IF IsAuthStatus(reply.status)
      THEN Run(cs, rs, <<>>, Rethrow(label, Throw(<<Seg(AuthText, reply.status)>>)))
      ELSE IF reply.status # okStatus
      THEN Run(cs, rs, <<>>, Rethrow(label, Throw(<<Seg(label, reply.status)>>)))
      ELSE Run(cs, rs, <<>>, Return(reply.data))

\* the shape of the methods that have no 401/403 branch
ApiUnchecked(label, failText, req, okStatus, reply) ==
  LET cs == <<req>>
      rs == <<reply>>
      response == AwaitApi(reply)
  IN  IF response.kind = "throw"
      THEN Run(cs, rs, <<>>, Rethrow(label, response))
      ELSE IF reply.status # okStatus
      THEN Run(cs, rs, <<>>, Rethrow(label, Throw(<<Seg(failText, reply.status)>>)))
      ELSE Run(cs, rs, <<>>, Return(reply.data))

\* the shape of the asynchronous writes: 202 is logged and accepted, the
\* synchronous status succeeds, nothing is returned
Void == <<>>

ApiAsyncWritePolling(label, req, okStatus, reply) ==
  LET cs == <<req>>
      rs == <<reply>>
      response == AwaitApi(reply)
  IN  IF response.kind = "throw"
      THEN Run(cs, rs, <<>>, Rethrow(label, response))
      ELSE IF IsAuthStatus(reply.status)
      THEN Run(cs, rs, <<>>, Rethrow(label, Throw(<<Seg(AuthText, reply.status)>>)))
      ELSE IF reply.status = 202
      THEN Run(<<req, Request("GET", <<"/status", "id">>)>>, <<reply, reply>>, <<>>, Return(Void))
      ELSE IF reply.status # okStatus
      THEN Run(cs, rs, <<>>, Rethrow(label, Throw(<<Seg(label, reply.status)>>)))
      ELSE Run(cs, rs, <<>>, Return(Void))

ApiAsyncWrite(label, req, okStatus, reply) ==
  LET cs == <<req>>
      rs == <<reply>>
      response == AwaitApi(reply)
  IN  IF response.kind = "throw"
      THEN Run(cs, rs, <<>>, Rethrow(label, response))
      ELSE IF IsAuthStatus(reply.status)
      THEN Run(cs, rs, <<>>, Rethrow(label, Throw(<<Seg(AuthText, reply.status)>>)))
      ELSE IF reply.status = 202
      THEN Run(cs, rs, <<>>, Return(Void))
      ELSE IF reply.status # okStatus
      THEN Run(cs, rs, <<>>, Rethrow(label, Throw(<<Seg(label, reply.status)>>)))
      ELSE Run(cs, rs, <<>>, Return(Void))

Api_getAnnotation(path, reply) ==
  ApiChecked("Failed to get annotation", Request("GET", <<"/annotation", path>>), 200, reply)

Api_reloadAuthorizationFramework(reply) ==
  ApiAsyncWrite("Failed to reload authorization framework",
                Request("POST", <<"/configuration/authorization/reload">>), 204, reply)

Api_setConfiguration(configuration, reply) ==
  ApiAsyncWrite("Failed to set configuration",
                Request("PUT", <<"/configuration">>), 201, reply)

Api_setConfigurationField(field, value, reply) ==
  ApiAsyncWrite("Failed to set configuration field",
                Request("PUT", <<"/configuration", field>>), 204, reply)

Api_getFileContent(path, reply) ==
  ApiChecked("Failed to get file content", Request("GET", <<"/file/content", path>>), 200, reply)

Api_getFileGenre(path, reply) ==
  ApiChecked("Failed to get file genre", Request("GET", <<"/file/genre", path>>), 200, reply)

Api_getFileDefinitions(path, reply) ==
  ApiChecked("Failed to get file definitions", Request("GET", <<"/file/defs", path>>), 200, reply)

Api_getHistory(path, reply) ==
  ApiChecked("Failed to get history", Request("GET", <<"/history", path>>), 200, reply)

Api_getDirectoryListing(path, reply) ==
  ApiChecked("Failed to get directory listing", Request("GET", <<"/list", path>>), 200, reply)

Api_getLastIndexTime(reply) ==
  ApiChecked("Failed to get last index time", Request("GET", <<"/system/indextime">>), 200, reply)

Api_getVersion(reply) ==
  ApiUnchecked("Failed to get version", "Failed to get version",
               Request("GET", <<"/system/version">>), 200, reply)

Api_pingPropagating(reply) ==
  LET response == AwaitApi(reply)
  IN  Run(<<Request("GET", <<"/system/ping">>)>>, <<reply>>, <<>>,
          IF response.kind = "throw" THEN response ELSE Return(reply.status = 200))

Api_ping(reply) ==
  LET response == AwaitApi(reply)
  IN  Run(<<Request("GET", <<"/system/ping">>)>>, <<reply>>, <<>>,
          IF response.kind = "throw" THEN Return(FALSE) ELSE Return(reply.status = 200))

Api_checkGroupMatch(group, projectName, reply) ==
  LET cs == <<Request("POST", <<"/groups", group, "match">>)>>
      rs == <<reply>>
      label == "Failed to check group match"
      response == AwaitApi(reply)
  IN  IF response.kind = "throw"
      THEN Run(cs, rs, <<>>, Rethrow(label, response))
      ELSE IF IsAuthStatus(reply.status)
      THEN Run(cs, rs, <<>>, Rethrow(label, Throw(<<Seg(AuthText, reply.status)>>)))
      ELSE Run(cs, rs, <<>>, Return(reply.status = 200))

Api_getProjects(reply) ==
  ApiChecked("Failed to get projects", Request("GET", <<"/projects">>), 200, reply)

Api_markProjectAsIndexed(projectName, reply) ==
  ApiAsyncWrite("Failed to mark project as indexed",
                Request("PUT", <<"/projects", projectName, "indexed">>), 204, reply)

Api_getProjectIndexedFiles(projectName, reply) ==
  ApiChecked("Failed to get project indexed files",
             Request("GET", <<"/projects", projectName, "files">>), 200, reply)

Api_getProjectRepositories(projectName, reply) ==
  ApiChecked("Failed to get project repositories",
             Request("GET", <<"/projects", projectName, "repositories">>), 200, reply)

Api_getProjectRepositoryTypes(projectName, reply) ==
  ApiChecked("Failed to get project repository types",
             Request("GET", <<"/projects", projectName, "repositories/type">>), 200, reply)

Api_getIndexedProjects(reply) ==
  ApiChecked("Failed to get indexed projects", Request("GET", <<"/projects/indexed">>), 200, reply)

\* params of GET /search: only the arguments that are not undefined
Api_search(full, def, symbol, path, hist, type, projects, maxResults, reply) ==
  ApiUnchecked("Search failed", "Search failed with status",
               [method |-> "GET", url |-> <<"/search">>,
                params |-> [full |-> full, def |-> def, symbol |-> symbol, path |-> path,
                            hist |-> hist, type |-> type, projects |-> projects,
                            maxresults |-> maxResults]],
               200, reply)

Api_getSuggestions(projects, field, caret, full, defs, refs, path, hist, type, reply) ==
  ApiUnchecked("Get suggestions failed", "Get suggestions failed with status",
               [method |-> "GET", url |-> <<"/suggest">>,
                params |-> [projects |-> projects, field |-> field, caret |-> caret,
                            full |-> full, defs |-> defs, refs |-> refs, path |-> path,
                            hist |-> hist, type |-> type]],
               200, reply)

Api_checkRequestStatus(uuid, reply) ==
  LET response == AwaitApi(reply)
  IN  Run(<<Request("GET", <<"/status", uuid>>)>>, <<reply>>, <<>>,
          IF response.kind = "throw"
          THEN Rethrow("Check request status failed", response)
          ELSE Return(reply.status))

(***************************************************************************)
(* REST pipeline: the search response.                                     *)
(*                                                                         *)
(* `results` maps file paths to hit lists; it is held as the sequence of   *)
(* its entries in Object.entries order, the keys being distinct.  A hit    *)
(* has `lineNumber` (a string, as a sequence of characters) and `line`     *)
(* (the highlighted text, "" when the upstream sends none).                *)
(***************************************************************************)
Hit(lineNumber, line) == [lineNumber |-> lineNumber, line |-> line]

Hits ==
  { Hit(<<"7">>, "x"),
    Hit(<<"0", "7">>, "<b>y</b>"),
    Hit(<<>>, "x"),
    Hit(<<"7">>, ""),
    Hit(<<"x">>, "z") }

HitLists == SeqsUpTo(Hits, MaxHits)

Entry(filePath, hits) == [filePath |-> filePath, hits |-> hits]

Distinct(s) == \A i, j \in 1..Len(s) : i # j => s[i] # s[j]

PathSeqs == {k \in SeqsUpTo(Paths, Cardinality(Paths)) : Distinct(k)}

RECURSIVE TotalHits(_, _)
TotalHits(hs, i) == IF i > Len(hs) THEN 0 ELSE Len(hs[i]) + TotalHits(hs, i + 1)

ResultMap(ks, hs) == [i \in 1..Len(ks) |-> Entry(ks[i], hs[i])]

SearchResponse(results) == [results |-> results]

\* the inner loop of transformSearchResults: the hits of one file
RECURSIVE transformHits(_, _, _, _, _)
transformHits(filePath, hits, project, i, results) ==
  IF i > Len(hits)
  THEN results
  ELSE LET hit == hits[i]
       IN  IF hit.lineNumber # <<>> /\ hit.line # ""
           THEN LET lineNumber == parseInt(hit.lineNumber)
                IN  transformHits(filePath, hits, project, i + 1,
                      Append(results,
                        SearchResult(filePath, lineNumber, hit.line, OrElse(project, "unknown"))))
           ELSE transformHits(filePath, hits, project, i + 1, results)

\* the outer loop: the entries of apiResponse.results
RECURSIVE transformEntries(_, _, _, _)
transformEntries(entries, project, i, results) ==
  IF i > Len(entries)
  THEN results
  ELSE transformEntries(entries, project, i + 1,
         transformHits(entries[i].filePath, entries[i].hits, project, 1, results))

transformSearchResults(apiResponse, project) ==
  transformEntries(apiResponse.results, project, 1, <<>>)

(***************************************************************************)
(* OpenGrokClient, rest-api: every method delegates to the API client and  *)
(* rethrows with its own prefix.                                           *)
(***************************************************************************)
Delegate(prefix, run) == Run(run.calls, run.replies, run.norm, Rethrow(prefix, run.outcome))

PickNoDefault(searchType, which, query) ==
  IF searchType = which THEN query ELSE Undefined

Pick(searchType, which, query) ==
  IF which = "full"
  THEN IF searchType \notin {"defs", "refs", "path", "hist"} THEN query ELSE Undefined
  ELSE IF searchType = which THEN query ELSE Undefined

\* the guard `if (!project)` of search
Rest_projectMissing(project) == ~Truthy(project)

Rest_search(query, project, searchType, language, maxResults, reply) ==
  IF Rest_projectMissing(project)
  THEN Run(<<>>, <<>>, <<>>,
           Throw(<<Seg("Project is required for OpenGrok search. Please specify a project.", NoCode)>>))
  ELSE LET full == Pick(searchType, "full", query)
           def == Pick(searchType, "defs", query)
           symbol == Pick(searchType, "refs", query)
           path == Pick(searchType, "path", query)
           hist == Pick(searchType, "hist", query)
           type == IF Truthy(language) THEN language ELSE Undefined
           run == Api_search(full, def, symbol, path, hist, type, project, maxResults, reply)
       IN  IF run.outcome.kind = "throw"
           THEN Delegate("OpenGrok search failed", run)
           ELSE LET results == transformSearchResults(run.outcome.value, project)
                IN  Run(run.calls, run.replies,
                        <<Normalised("transformSearchResults", run.outcome.value, results)>>,
                        Return(Take(results, maxResults)))

Rest_getFileContent(path, project, reply) ==
  LET run == Api_getFileContent(path, reply)
  IN  IF run.outcome.kind = "throw"
      THEN Delegate("Failed to get file content", run)
      ELSE Run(run.calls, run.replies, <<>>,
               Return(FileContent(path, run.outcome.value, OrElse(project, ""))))

RECURSIVE refsOfHits(_, _, _, _, _)
refsOfHits(symbol, filePath, hits, i, refs) ==
  IF i > Len(hits)
  THEN refs
  ELSE IF hits[i].lineNumber # <<>>
       THEN refsOfHits(symbol, filePath, hits, i + 1,
              Append(refs, CrossReference(symbol, filePath, parseInt(hits[i].lineNumber), "reference")))
       ELSE refsOfHits(symbol, filePath, hits, i + 1, refs)

RECURSIVE refsOfEntries(_, _, _, _)
refsOfEntries(symbol, entries, i, refs) ==
  IF i > Len(entries)
  THEN refs
  ELSE refsOfEntries(symbol, entries, i + 1,
         refsOfHits(symbol, entries[i].filePath, entries[i].hits, 1, refs))

Rest_getCrossReferences(symbol, project, reply) ==
  LET run == Api_search(Undefined, Undefined, symbol, Undefined, Undefined, Undefined,
                        project, Undefined, reply)
  IN  IF run.outcome.kind = "throw"
      THEN Delegate("Failed to get cross-references", run)
      ELSE Run(run.calls, run.replies, <<>>,
               Return(refsOfEntries(symbol, run.outcome.value.results, 1, <<>>)))

Rest_listProjects(reply) == Delegate("Failed to list projects", Api_getProjects(reply))

Rest_getAnnotation(path, reply) ==
  Delegate("Failed to get annotation", Api_getAnnotation(path, reply))

Rest_getDirectoryListing(path, reply) ==
  Delegate("Failed to get directory listing", Api_getDirectoryListing(path, reply))

Rest_getHistory(path, reply) == Delegate("Failed to get history", Api_getHistory(path, reply))

Rest_getFileDefinitions(path, reply) ==
  Delegate("Failed to get file definitions", Api_getFileDefinitions(path, reply))

Rest_getFileGenre(path, reply) ==
  Delegate("Failed to get file genre", Api_getFileGenre(path, reply))

\* try { return await this.apiClient.ping() } catch { return false }
Rest_ping(reply) ==
  LET run == Api_ping(reply)
  IN  IF run.outcome.kind = "throw"
      THEN Run(run.calls, run.replies, run.norm, Return(FALSE))
      ELSE run

Rest_getIndexedProjects(reply) ==
  Delegate("Failed to get indexed projects", Api_getIndexedProjects(reply))

Rest_getProjectRepositories(project, reply) ==
  Delegate("Failed to get project repositories", Api_getProjectRepositories(project, reply))

Rest_getProjectRepositoryTypes(project, reply) ==
  Delegate("Failed to get project repository types", Api_getProjectRepositoryTypes(project, reply))

Rest_getProjectIndexedFiles(project, reply) ==
  Delegate("Failed to get project indexed files", Api_getProjectIndexedFiles(project, reply))

Rest_getSuggestions(query, project, field, reply) ==
  LET projects == IF Truthy(project) THEN project ELSE Undefined
      run == Api_getSuggestions(projects, field, Undefined, query, query, query, query, query,
                                Undefined, reply)
  IN  IF run.outcome.kind = "throw"
      THEN Delegate("Failed to get suggestions", run)
      ELSE Run(run.calls, run.replies, <<>>, Return(run.outcome.value.suggestions))

Rest_getLastIndexTime(reply) ==
  Delegate("Failed to get last index time", Api_getLastIndexTime(reply))

Rest_getVersion(reply) == Delegate("Failed to get version", Api_getVersion(reply))

(***************************************************************************)
(* The tool-call handlers (one per server index).                          *)
(*                                                                         *)
(* A request is request.params: the tool name and, when the caller sent    *)
(* them, the arguments, a record that holds the properties the caller set. *)
(***************************************************************************)
With(r, f, v) == [k \in DOMAIN r \cup {f} |-> IF k = f THEN v ELSE r[k]]

\* an optional property: o is <<>> or <<value>>
Opt(r, f, o) == IF o = <<>> THEN r ELSE With(r, f, o[1])

\* a destructured property: undefined when the caller did not set it
Arg(a, f) == IF f \in DOMAIN a THEN a[f] ELSE Undefined

\* a destructured property with a default: `{ maxResults = 50 } = args`
ArgOr(a, f, dflt) == IF f \in DOMAIN a THEN a[f] ELSE dflt

\* the characters of a project argument
Chars(s) ==
  CASE s = "" -> <<>>
    [] s = " " -> <<" ">>
    [] s = "p" -> <<"p">>
    [] s = "dp" -> <<"d", "p">>

\* JSON.stringify(value, null, 2)
JSONstringify(value) == [json |-> value, indent |-> 2]

ToolText(text) == [type |-> "text", text |-> text]

ToolOk(text) == [content |-> <<ToolText(text)>>]

\* the text is `Error: ${error.message}`
ToolError(message) ==
  [content |-> <<ToolText(<<Seg("Error", NoCode)>> \o message)>>, isError |-> TRUE]

\* the catch clause of the handler
CaughtNothing(o) == o

Caught(o) == IF o.kind = "throw" THEN Return(ToolError(o.msg)) ELSE o

\* what one handling did: the facade operation it invoked (if any), with
\* the run of that operation, and what the handler itself ended with
Handled(name, a, run, res) == [op |-> name, args |-> a, run |-> run, result |-> res]

NotInvoked == Run(<<>>, <<>>, <<>>, [kind |-> "none"])

\* a throw of the handler's own, before any facade call
Rejected(message) == Handled("none", <<>>, NotInvoked, Caught(Throw(message)))

\* `const { ... } = args` when the request has no arguments
DestructureError ==
  <<Seg("Cannot destructure property of 'args' as it is undefined.", NoCode)>>

ProjectParameterRequired ==
  <<Seg("Project parameter is required. Use opengrok_list_projects to see available projects.",
        NoCode)>>

UnknownTool(name) == <<Seg("Unknown tool", NoCode), Seg(name, NoCode)>>

\* the text of a successful result
Render(how, value) ==
  CASE how = "json" -> JSONstringify(value)
    [] how = "content" -> value.content
    [] how = "alive" -> IF value THEN "OpenGrok server is alive"
                                 ELSE "OpenGrok server is not responding"
    [] OTHER -> value

\* `const x = await openGrokClient.op(...); return { content: [...] }`
Answer(name, a, run, how) ==
  Handled(name, a, run,
          Caught(IF run.outcome.kind = "throw"
                 THEN run.outcome
                 ELSE Return(ToolOk(Render(how, run.outcome.value)))))

\* the guard without the trim
ProjectRejectedWhenFalsy(project) == ~Truthy(project)

\* the guard of opengrok_search: `!project || project.trim() === ''`
ProjectRejected(project) == ~Truthy(project) \/ Trim(Chars(project)) = <<>>

SearchArgs(project, searchType, language, maxResults) ==
  [project |-> project, searchType |-> searchType, language |-> language,
   maxResults |-> maxResults]

\* the CallToolRequestSchema handler of the html-scrape index
Html_CallTool(req, defaultProject, reply1, reply2) ==
  LET name == req.name
      given == "arguments" \in DOMAIN req
      a == req.arguments
  IN  CASE name = "opengrok_search" ->
             IF ~given THEN Rejected(DestructureError)
             ELSE LET project == Arg(a, "project")
                      searchType == ArgOr(a, "searchType", "full")
                      language == Arg(a, "language")
                      maxResults == ArgOr(a, "maxResults", DefaultMaxResults)
                  IN  IF ProjectRejected(project)
                      THEN Rejected(ProjectParameterRequired)
                      ELSE Answer("search",
                                  SearchArgs(project, searchType, language, maxResults),
                                  Html_search(a.query, project, searchType, language,
                                              maxResults, reply1),
                                  "json")
        [] name = "opengrok_get_file" ->
             IF ~given THEN Rejected(DestructureError)
             ELSE LET project == OrElse(Arg(a, "project"), defaultProject)
                  IN  Answer("getFileContent",
                             [path |-> a.path, project |-> project, mock |-> <<reply1, reply2>>],
                             Html_getFileContent(a.path, project, reply1, reply2),
                             "content")
        [] name = "opengrok_xref" ->
             IF ~given THEN Rejected(DestructureError)
             ELSE LET project == OrElse(Arg(a, "project"), defaultProject)
                  IN  Answer("getCrossReferences", [symbol |-> a.symbol, project |-> project],
                             Html_getCrossReferences(a.symbol, project, reply1),
                             "json")
        [] name = "opengrok_list_projects" ->
             Answer("listProjects", <<>>, Html_listProjects(reply1), "json")
        [] OTHER -> Rejected(UnknownTool(name))

\* the tools of the rest-api index that take a path, and those that take a
\* project, with the facade operation each one calls
PathTools ==
  {"opengrok_get_annotation", "opengrok_get_directory_listing", "opengrok_get_history",
   "opengrok_get_file_definitions", "opengrok_get_file_genre"}

ProjectTools ==
  {"opengrok_get_project_repositories", "opengrok_get_project_repository_types",
   "opengrok_get_project_indexed_files"}

\* the CallToolRequestSchema handler of the rest-api index
Rest_CallTool(req, defaultProject, reply) ==
  LET name == req.name
      given == "arguments" \in DOMAIN req
      a == req.arguments
  IN  CASE name = "opengrok_search" ->
             IF ~given THEN Rejected(DestructureError)
             ELSE LET project == Arg(a, "project")
                      searchType == ArgOr(a, "searchType", "full")
                      language == Arg(a, "language")
                      maxResults == ArgOr(a, "maxResults", DefaultMaxResults)
                  IN  IF ProjectRejected(project)
                      THEN Rejected(ProjectParameterRequired)
                      ELSE Answer("search",
                                  SearchArgs(project, searchType, language, maxResults),
                                  Rest_search(a.query, project, searchType, language,
                                              maxResults, reply),
                                  "json")
        [] name = "opengrok_get_file" ->
             IF ~given THEN Rejected(DestructureError)
             ELSE Answer("getFileContent", [path |-> a.path, project |-> Undefined],
                         Rest_getFileContent(a.path, Undefined, reply), "content")
        [] name = "opengrok_xref" ->
             IF ~given THEN Rejected(DestructureError)
             ELSE LET project == OrElse(Arg(a, "project"), defaultProject)
                  IN  Answer("getCrossReferences", [symbol |-> a.symbol, project |-> project],
                             Rest_getCrossReferences(a.symbol, project, reply), "json")
        [] name = "opengrok_get_suggestions" ->
             IF ~given THEN Rejected(DestructureError)
             ELSE LET project == Arg(a, "project")
                      field == ArgOr(a, "field", "full")
                  IN  Answer("getSuggestions", [project |-> project, field |-> field],
                             Rest_getSuggestions(a.query, project, field, reply), "json")
        [] name \in PathTools ->
             IF ~given THEN Rejected(DestructureError)
             ELSE (CASE name = "opengrok_get_annotation" ->
                         Answer("getAnnotation", [path |-> a.path],
                                Rest_getAnnotation(a.path, reply), "json")
                    [] name = "opengrok_get_directory_listing" ->
                         Answer("getDirectoryListing", [path |-> a.path],
                                Rest_getDirectoryListing(a.path, reply), "json")
                    [] name = "opengrok_get_history" ->
                         Answer("getHistory", [path |-> a.path],
                                Rest_getHistory(a.path, reply), "json")
                    [] name = "opengrok_get_file_definitions" ->
                         Answer("getFileDefinitions", [path |-> a.path],
                                Rest_getFileDefinitions(a.path, reply), "json")
                    [] name = "opengrok_get_file_genre" ->
                         Answer("getFileGenre", [path |-> a.path],
                                Rest_getFileGenre(a.path, reply), "text"))
        [] name \in ProjectTools ->
             IF ~given THEN Rejected(DestructureError)
             ELSE LET project == Arg(a, "project")
                  IN  (CASE name = "opengrok_get_project_repositories" ->
                             Answer("getProjectRepositories", [project |-> project],
                                    Rest_getProjectRepositories(project, reply), "json")
                        [] name = "opengrok_get_project_repository_types" ->
                             Answer("getProjectRepositoryTypes", [project |-> project],
                                    Rest_getProjectRepositoryTypes(project, reply), "json")
                        [] name = "opengrok_get_project_indexed_files" ->
                             Answer("getProjectIndexedFiles", [project |-> project],
                                    Rest_getProjectIndexedFiles(project, reply), "json"))
        [] name = "opengrok_list_projects" ->
             Answer("listProjects", <<>>, Rest_listProjects(reply), "json")
        [] name = "opengrok_ping" ->
             Answer("ping", <<>>, Rest_ping(reply), "alive")
        [] name = "opengrok_get_indexed_projects" ->
             Answer("getIndexedProjects", <<>>, Rest_getIndexedProjects(reply), "json")
        [] name = "opengrok_get_last_index_time" ->
             Answer("getLastIndexTime", <<>>, Rest_getLastIndexTime(reply), "text")
        [] name = "opengrok_get_version" ->
             Answer("getVersion", <<>>, Rest_getVersion(reply), "text")
        [] OTHER -> Rejected(UnknownTool(name))

(***************************************************************************)
(* The state machine.  The clients keep nothing between calls but what     *)
(* the constructor set, so a behaviour is a construction followed by one   *)
(* invocation, whose inputs and upstream replies are drawn here.           *)
(***************************************************************************)
OpaqueData == {<<"d1">>, <<"d2">>}

SuggesterResponses == {[suggestions |-> <<>>], [suggestions |-> <<"s1", "s2">>]}

Groups == {"g"}

\* search pages and search responses that come with every argument and
\* every status; the larger ones come with the default arguments
SmallBody(data) == Len(data) <= 1

SmallResponse(data) == Len(data.results) = 0

\* what the upstream may answer, per kind of body
SearchPageReplies == UpstreamReplies(SearchPages)

\* the larger file pages come with status 200
FilePageReplies ==
  {Response(200, b) : b \in FilePages} \cup UpstreamReplies(PlainFilePages)

MainPageReplies == UpstreamReplies(MainPages)

SearchResponses ==
  UNION { {SearchResponse(ResultMap(ks, hs)) :
             hs \in {h \in [1..Len(ks) -> HitLists] : TotalHits(h, 1) <= MaxHits}} :
          ks \in PathSeqs }

\* a response with one well-formed hit
OneHitResponse == SearchResponse(<<Entry("a", <<Hit(<<"7">>, "x")>>)>>)

\* a search response comes with status 200, the empty one and the one-hit
\* one with every status, the empty one with the network error
SearchReplies ==
  {Response(200, b) : b \in SearchResponses}
    \cup UpstreamReplies({b \in SearchResponses : SmallResponse(b)})
    \cup {Response(status, OneHitResponse) : status \in Statuses}

OpaqueReplies == UpstreamReplies(OpaqueData)

SuggesterReplies == UpstreamReplies(SuggesterResponses)

(***************************************************************************)
(* The credential holder (OpenGrokAuth) and the construction of clients.   *)
(*                                                                         *)
(* A cookie string is the sequence of its characters.  The jar is the      *)
(* sequence of the cookies it holds for the base URL, each a key and a     *)
(* value, in the order of their first insertion.  A base URL is a sequence *)
(* of "/" characters and of runs of other characters.                      *)
(***************************************************************************)
\* an unset string, where strings are sequences of characters
UndefinedChars == <<Undefined>>

TruthyChars(s) == s # UndefinedChars /\ s # <<>>

\* the segments cookie strings are made of: two cookies, a segment without
\* "=", an empty segment (as after a final ";"), and a second value for "a"
CookieSegments ==
  { <<"a", "=", "1">>, <<" ", "b", "=", "2">>, <<"b", "a", "d">>, <<>>,
    <<" ", "a", "=", "2">> }

RECURSIVE Join(_, _)
Join(parts, sep) ==
  IF Len(parts) = 0
  THEN <<>>
  ELSE IF Len(parts) = 1
       THEN parts[1]
       ELSE parts[1] \o sep \o Join(Tail(parts), sep)

CookieStrings ==
  {Join(p, <<";">>) : p \in UNION {[1..n -> CookieSegments] : n \in 1..MaxSegments}}

\* s.split(sep), sep one character
RECURSIVE split(_, _)
split(s, sep) ==
  LET at == {i \in 1..Len(s) : s[i] = sep}
  IN  IF at = {}
      THEN <<s>>
      ELSE LET i == CHOOSE i \in at : \A j \in at : i <= j
           IN  <<SubSeq(s, 1, i - 1)>> \o split(SubSeq(s, i + 1, Len(s)), sep)

\* what setCookieSync makes of the text of a cookie: the key before the
\* first "=" and the value after it, both trimmed; nothing when there is no
\* "=" or nothing before it
CookieParse(str) ==
  LET s == Trim(str)
      at == {i \in 1..Len(s) : s[i] = "="}
  IN  IF at = {} \/ 1 \in at
      THEN [parsed |-> FALSE]
      ELSE LET firstEq == CHOOSE i \in at : \A j \in at : i <= j
           IN  [parsed |-> TRUE,
                key |-> Trim(SubSeq(s, 1, firstEq - 1)),
                value |-> Trim(SubSeq(s, firstEq + 1, Len(s)))]

\* the jar keeps one cookie per key: a cookie set again takes the place of
\* the one it had
putCookie(jar, key, value) ==
  IF \E i \in 1..Len(jar) : jar[i].key = key
  THEN [i \in 1..Len(jar) |->
          IF jar[i].key = key THEN [key |-> key, value |-> value] ELSE jar[i]]
  ELSE Append(jar, [key |-> key, value |-> value])

\* this.cookieJar.setCookieSync(cookie, this.baseUrl): throws on a text it
\* cannot parse
setCookieSync(jar, cookie) ==
  LET c == CookieParse(cookie)
  IN  IF c.parsed
      THEN [thrown |-> FALSE, jar |-> putCookie(jar, c.key, c.value)]
      ELSE [thrown |-> TRUE, jar |-> jar]

FailedToSetCookie == "Failed to set cookie:"

\* the loop of loadCookiesFromString, with what it logs; without the catch
\* clause a cookie that cannot be set ends the loop with its error
RECURSIVE loadCookiesLoopNoCatch(_, _, _, _)
loadCookiesLoopNoCatch(cookies, i, jar, logged) ==
  IF i > Len(cookies)
  THEN [jar |-> jar, errors |-> logged, thrown |-> FALSE]
  ELSE LET set == setCookieSync(jar, Trim(cookies[i]))
       IN  IF set.thrown
           THEN [jar |-> jar, errors |-> logged, thrown |-> TRUE]
           ELSE loadCookiesLoopNoCatch(cookies, i + 1, set.jar, logged)

RECURSIVE loadCookiesLoop(_, _, _, _)
loadCookiesLoop(cookies, i, jar, logged) ==
  IF i > Len(cookies)
  THEN [jar |-> jar, errors |-> logged, thrown |-> FALSE]
  ELSE LET set == setCookieSync(jar, Trim(cookies[i]))
       IN  IF set.thrown
           THEN loadCookiesLoop(cookies, i + 1, jar, Append(logged, FailedToSetCookie))
           ELSE loadCookiesLoop(cookies, i + 1, set.jar, logged)

loadCookiesFromString(jar, cookieString) ==
  loadCookiesLoop(split(cookieString, ";"), 1, jar, <<>>)

\* c.cookieString()
cookieString(c) == c.key \o <<"=">> \o c.value

\* the pairs joined by ";" alone
getCookieStringNoSpace(jar) ==
  Join([i \in 1..Len(jar) |-> cookieString(jar[i])], <<";">>)

getCookieString(jar) ==
  Join([i \in 1..Len(jar) |-> cookieString(jar[i])], <<";", " ">>)

Unassigned == [assigned |-> FALSE]

\* the constructor loading whatever it is given, configured or not
OpenGrokAuthUnguarded(baseUrl, cookies) ==
  LET loaded == loadCookiesFromString(<<>>, cookies)
  IN  [assigned |-> TRUE,
       thrown |-> loaded.thrown,
       baseUrl |-> baseUrl,
       cookieJar |-> loaded.jar,
       loads |-> 1,
       logged |-> loaded.errors]

\* new OpenGrokAuth({baseUrl, cookieString}): the holder, and what its
\* construction logged; loads counts the calls of loadCookiesFromString
OpenGrokAuth(baseUrl, cookies) ==
  LET loaded == IF TruthyChars(cookies)
                THEN loadCookiesFromString(<<>>, cookies)
                ELSE [jar |-> <<>>, errors |-> <<>>, thrown |-> FALSE]
  IN  [assigned |-> TRUE,
       thrown |-> loaded.thrown,
       baseUrl |-> baseUrl,
       cookieJar |-> loaded.jar,
       loads |-> IF TruthyChars(cookies) THEN 1 ELSE 0,
       logged |-> loaded.errors]

\* isAuthenticated: status 200, and false on any failure of the request
isAuthenticated(reply) == reply.kind = "response" /\ reply.status = 200

\* baseUrl.replace(/\/$/, '')
RemoveTrailingSlash(baseUrl) ==
  IF Len(baseUrl) > 0 /\ baseUrl[Len(baseUrl)] = "/"
  THEN SubSeq(baseUrl, 1, Len(baseUrl) - 1)
  ELSE baseUrl

\* the cookieJar argument of a client: the jar of the credential holder, or
\* none
HolderJar == "authHandler.cookieJar"

NoCredentials == [kind |-> "none"]

UseJar == [kind |-> "jar"]

BasicAuth(username, password) ==
  [kind |-> "basic", username |-> username, password |-> password]

\* what the adapter of the html-scrape client attaches to its requests
Html_credentials(cookieJar, username, password) ==
  IF cookieJar # Undefined
  THEN UseJar
  ELSE IF Truthy(username) /\ Truthy(password)
       THEN BasicAuth(username, password)
       ELSE NoCredentials

\* new OpenGrokClient(baseUrl, cookieJar, username, password), html-scrape
Html_OpenGrokClient(baseUrl, cookieJar, username, password) ==
  [assigned |-> TRUE,
   baseUrl |-> RemoveTrailingSlash(baseUrl),
   baseURL |-> RemoveTrailingSlash(baseUrl),
   credentials |-> Html_credentials(cookieJar, username, password)]

\* what the adapter of the API client attaches to its requests
Api_credentials(cookieJar, username, password) ==
  IF cookieJar # Undefined
  THEN UseJar
  ELSE IF Truthy(username) /\ Truthy(password)
       THEN BasicAuth(username, password)
       ELSE NoCredentials

\* new OpenGrokApiClient(baseUrl, cookieJar, username, password)
OpenGrokApiClient(baseUrl, cookieJar, username, password) ==
  [baseUrl |-> RemoveTrailingSlash(baseUrl),
   baseURL |-> RemoveTrailingSlash(baseUrl) \o <<"/", "api", "/", "v1">>,
   credentials |-> Api_credentials(cookieJar, username, password)]

\* new OpenGrokClient(baseUrl, cookieJar, username, password), rest-api: it
\* sends every request through its API client
Rest_OpenGrokClient(baseUrl, cookieJar, username, password) ==
  [assigned |-> TRUE,
   baseUrl |-> RemoveTrailingSlash(baseUrl),
   apiClient |-> OpenGrokApiClient(RemoveTrailingSlash(baseUrl), cookieJar, username,
                                   password)]

OpenGrokClient(m, baseUrl, cookieJar, username, password) ==
  IF m = "html-scrape"
  THEN Html_OpenGrokClient(baseUrl, cookieJar, username, password)
  ELSE Rest_OpenGrokClient(baseUrl, cookieJar, username, password)

(***************************************************************************)
(* The editor extension: registerMcpServer, which activate calls.          *)
(*                                                                         *)
(* mcpJson is the file mcp.json: absent, or a text.  A text is strict JSON *)
(* ("json"), JSON with comments or trailing commas as the editor accepts   *)
(* it ("jsonc"), or something else ("other"); value is the configuration   *)
(* the text denotes.  An object is a function from its keys.               *)
(***************************************************************************)
Absent == [exists |-> FALSE]

File(format, value) == [exists |-> TRUE, format |-> format, value |-> value]

\* the JSON value null
Null == [null |-> TRUE]

EmptyObject == <<>>

\* obj[key] = value
Put(obj, key, value) ==
  [k \in DOMAIN obj \cup {key} |-> IF k = key THEN value ELSE obj[k]]

\* the entry registerMcpServer writes
OpenGrokEntry(url, cookies) ==
  [command |-> "process.execPath",
   args |-> <<"mcp-server/dist/index.js">>,
   env |-> [OPENGROK_URL |-> OrElse(url, "http://localhost:8080/source"),
            OPENGROK_USE_OAUTH |-> "true",
            OPENGROK_COOKIES |-> OrElse(cookies, "")]]

\* entries found in the file: another server, and an opengrok entry of an
\* earlier registration
OtherEntry == [command |-> "other-server"]

StaleEntry == OpenGrokEntry("http://old", "a=0")

ServerMaps ==
  { EmptyObject, [other |-> OtherEntry], [opengrok |-> StaleEntry],
    [other |-> OtherEntry, opengrok |-> StaleEntry] }

McpConfigs ==
  { EmptyObject, [inputs |-> <<"token">>], [servers |-> Null] }
    \cup {[servers |-> s] : s \in ServerMaps}
    \cup {[servers |-> s, inputs |-> <<"token">>] : s \in ServerMaps}

McpFiles ==
  {Absent, File("other", EmptyObject), File("json", Null)}
    \cup {File(f, v) : f \in {"json", "jsonc"}, v \in McpConfigs}

\* JSON.parse(content)
JSONparse(file) ==
  IF file.format = "json" THEN Return(file.value) ELSE Throw("SyntaxError")

\* JSON.stringify(mcpConfig, null, 2)
JSONtext(value) == File("json", value)

\* `let mcpConfig = { servers: {} }`
NewMcpConfig == [servers |-> EmptyObject]

\* the configuration registerMcpServer starts from: the parsed file, or a
\* new configuration when there is no file or it does not parse
ReadMcpConfig(file) ==
  IF ~file.exists
  THEN Return(NewMcpConfig)
  ELSE LET parsed == JSONparse(file)
       IN  IF parsed.kind = "throw" THEN Return(NewMcpConfig) ELSE parsed

\* registerMcpServer: the file afterwards and how the call ended
registerMcpServer(file, installed, url, cookies, writeFails) ==
  IF ~installed
  THEN [file |-> file, ended |-> "OpenGrok MCP server files not found"]
  ELSE LET read == ReadMcpConfig(file)
       IN  IF read.value = Null
           THEN [file |-> file, ended |-> "TypeError"]
           ELSE LET mcpConfig == read.value
                    servers == IF "servers" \in DOMAIN mcpConfig /\ mcpConfig.servers # Null
                               THEN mcpConfig.servers
                               ELSE EmptyObject
                    updated == Put(mcpConfig, "servers",
                                   Put(servers, "opengrok", OpenGrokEntry(url, cookies)))
                IN  IF writeFails
                    THEN [file |-> file, ended |-> "Failed to update MCP configuration"]
                    ELSE [file |-> JSONtext(updated),
                          ended |-> "MCP configuration updated successfully"]


NoRequest == [name |-> "none"]

Idle == op = "none" /\ request = NoRequest

Init ==
  /\ mode \in Modes
  /\ config \in Configs
  /\ request = NoRequest
  /\ result = [kind |-> "none"]
  /\ op = "none"
  /\ args = <<>>
  /\ calls = <<>>
  /\ replies = <<>>
  /\ norm = <<>>
  /\ outcome = [kind |-> "none"]
  /\ pc = "connected"
  /\ authHandler = Unassigned
  /\ openGrokClient = OpenGrokClient(mode, <<"http://localhost:8080", "/", "source">>,
                                     Undefined, Undefined, Undefined)
  /\ errors = <<>>
  /\ serialized = UndefinedChars
  /\ tasks = <<>>
  /\ latest = <<>>
  /\ mcpJson = Absent
  /\ activations = <<>>

Finish(name, a, run) ==
  /\ op' = name
  /\ args' = a
  /\ calls' = run.calls
  /\ replies' = run.replies
  /\ norm' = run.norm
  /\ outcome' = run.outcome
  /\ UNCHANGED <<mode, config, request, result, process, concurrent, extension>>

HtmlSearch ==
  /\ Idle /\ mode = "html-scrape"
  /\ \E project \in Projects, searchType \in SearchTypes, language \in Languages,
        maxResults \in MaxResultsArgs, reply \in SearchPageReplies :
       /\ \/ searchType = "full" /\ language = Undefined
          \/ reply.kind = "response" => SmallBody(reply.data)
       /\ Finish("search", SearchArgs(project, searchType, language, maxResults),
                 Html_search("q", project, searchType, language, maxResults, reply))

HtmlGetFileContent ==
  /\ Idle /\ mode = "html-scrape"
  /\ \E path \in Paths, project \in Projects,
        reply1 \in FilePageReplies, reply2 \in FilePageReplies :
       Finish("getFileContent",
              [path |-> path, project |-> project, mock |-> <<reply1, reply2>>],
              Html_getFileContent(path, project, reply1, reply2))

HtmlGetCrossReferences ==
  /\ Idle /\ mode = "html-scrape"
  /\ \E project \in Projects, reply \in SearchPageReplies :
       /\ Finish("getCrossReferences", [symbol |-> "sym", project |-> project],
                 Html_getCrossReferences("sym", project, reply))

HtmlListProjects ==
  /\ Idle /\ mode = "html-scrape"
  /\ \E reply \in MainPageReplies :
       Finish("listProjects", <<>>, Html_listProjects(reply))

RestSearch ==
  /\ Idle /\ mode = "rest-api"
  /\ \E project \in Projects, searchType \in SearchTypes, language \in Languages,
        maxResults \in MaxResultsArgs, reply \in SearchReplies :
       /\ \/ searchType = "full" /\ language = Undefined
          \/ reply.kind = "response" => SmallResponse(reply.data)
       /\ Finish("search", SearchArgs(project, searchType, language, maxResults),
                 Rest_search("q", project, searchType, language, maxResults, reply))

RestGetFileContent ==
  /\ Idle /\ mode = "rest-api"
  /\ \E path \in Paths, project \in Projects, reply \in OpaqueReplies :
       Finish("getFileContent", [path |-> path, project |-> project],
              Rest_getFileContent(path, project, reply))

RestGetCrossReferences ==
  /\ Idle /\ mode = "rest-api"
  /\ \E project \in Projects, reply \in SearchReplies :
       /\ Finish("getCrossReferences", [symbol |-> "sym", project |-> project],
                 Rest_getCrossReferences("sym", project, reply))

RestListProjects ==
  /\ Idle /\ mode = "rest-api"
  /\ \E reply \in OpaqueReplies :
       Finish("listProjects", <<>>, Rest_listProjects(reply))

RestGetAnnotation ==
  /\ Idle /\ mode = "rest-api"
  /\ \E path \in Paths, reply \in OpaqueReplies :
       Finish("getAnnotation", [path |-> path], Rest_getAnnotation(path, reply))

RestGetDirectoryListing ==
  /\ Idle /\ mode = "rest-api"
  /\ \E path \in Paths, reply \in OpaqueReplies :
       Finish("getDirectoryListing", [path |-> path], Rest_getDirectoryListing(path, reply))

RestGetHistory ==
  /\ Idle /\ mode = "rest-api"
  /\ \E path \in Paths, reply \in OpaqueReplies :
       Finish("getHistory", [path |-> path], Rest_getHistory(path, reply))

RestGetFileDefinitions ==
  /\ Idle /\ mode = "rest-api"
  /\ \E path \in Paths, reply \in OpaqueReplies :
       Finish("getFileDefinitions", [path |-> path], Rest_getFileDefinitions(path, reply))

RestGetFileGenre ==
  /\ Idle /\ mode = "rest-api"
  /\ \E path \in Paths, reply \in OpaqueReplies :
       Finish("getFileGenre", [path |-> path], Rest_getFileGenre(path, reply))

RestPing ==
  /\ Idle /\ mode = "rest-api"
  /\ \E reply \in OpaqueReplies :
       Finish("ping", <<>>, Rest_ping(reply))

RestGetIndexedProjects ==
  /\ Idle /\ mode = "rest-api"
  /\ \E reply \in OpaqueReplies :
       Finish("getIndexedProjects", <<>>, Rest_getIndexedProjects(reply))

RestGetProjectRepositories ==
  /\ Idle /\ mode = "rest-api"
  /\ \E reply \in OpaqueReplies :
       Finish("getProjectRepositories", [project |-> "p"],
              Rest_getProjectRepositories("p", reply))

RestGetProjectRepositoryTypes ==
  /\ Idle /\ mode = "rest-api"
  /\ \E reply \in OpaqueReplies :
       Finish("getProjectRepositoryTypes", [project |-> "p"],
              Rest_getProjectRepositoryTypes("p", reply))

RestGetProjectIndexedFiles ==
  /\ Idle /\ mode = "rest-api"
  /\ \E reply \in OpaqueReplies :
       Finish("getProjectIndexedFiles", [project |-> "p"],
              Rest_getProjectIndexedFiles("p", reply))

RestGetSuggestions ==
  /\ Idle /\ mode = "rest-api"
  /\ \E project \in Projects, reply \in SuggesterReplies :
       Finish("getSuggestions", [project |-> project, field |-> "full"],
              Rest_getSuggestions("q", project, "full", reply))

RestGetLastIndexTime ==
  /\ Idle /\ mode = "rest-api"
  /\ \E reply \in OpaqueReplies :
       Finish("getLastIndexTime", <<>>, Rest_getLastIndexTime(reply))

RestGetVersion ==
  /\ Idle /\ mode = "rest-api"
  /\ \E reply \in OpaqueReplies :
       Finish("getVersion", <<>>, Rest_getVersion(reply))

\* the API client's own methods that the rest-api client does not wrap
ApiPing ==
  /\ Idle /\ mode = "rest-api"
  /\ \E reply \in OpaqueReplies :
       Finish("api.ping", <<>>, Api_ping(reply))

ApiCheckGroupMatch ==
  /\ Idle /\ mode = "rest-api"
  /\ \E group \in Groups, reply \in OpaqueReplies :
       Finish("api.checkGroupMatch", [group |-> group, projectName |-> "p"],
              Api_checkGroupMatch(group, "p", reply))

ApiReloadAuthorizationFramework ==
  /\ Idle /\ mode = "rest-api"
  /\ \E reply \in OpaqueReplies :
       Finish("api.reloadAuthorizationFramework", <<>>,
              Api_reloadAuthorizationFramework(reply))

ApiSetConfiguration ==
  /\ Idle /\ mode = "rest-api"
  /\ \E reply \in OpaqueReplies :
       Finish("api.setConfiguration", [config |-> "xml"], Api_setConfiguration("xml", reply))

ApiSetConfigurationField ==
  /\ Idle /\ mode = "rest-api"
  /\ \E reply \in OpaqueReplies :
       Finish("api.setConfigurationField", [field |-> "f", value |-> "v"],
              Api_setConfigurationField("f", "v", reply))

ApiMarkProjectAsIndexed ==
  /\ Idle /\ mode = "rest-api"
  /\ \E reply \in OpaqueReplies :
       Finish("api.markProjectAsIndexed", [projectName |-> "p"],
              Api_markProjectAsIndexed("p", reply))

ApiCheckRequestStatus ==
  /\ Idle /\ mode = "rest-api"
  /\ \E reply \in OpaqueReplies :
       Finish("api.checkRequestStatus", [uuid |-> "u"], Api_checkRequestStatus("u", reply))

\* tool requests: the tools of each index, a tool of the other index and a
\* name no index knows; the arguments are absent, or set some of the
\* optional properties
HtmlToolNames ==
  {"opengrok_search", "opengrok_get_file", "opengrok_xref", "opengrok_list_projects"}

RestToolNames ==
  HtmlToolNames \cup PathTools \cup ProjectTools
    \cup {"opengrok_ping", "opengrok_get_indexed_projects", "opengrok_get_last_index_time",
          "opengrok_get_version", "opengrok_get_suggestions"}

RequestedNames == RestToolNames \cup {"no_such_tool"}

ToolArguments ==
  { Opt(Opt(Opt([query |-> "q", path |-> "a", symbol |-> "sym"],
                "project", p), "searchType", t), "maxResults", m) :
      p \in {<<>>, <<"">>, <<" ">>, <<"p">>}, t \in {<<>>, <<"defs">>}, m \in {<<>>, <<1>>} }

\* the search options come with the search tool only
ToolRequests ==
  {[name |-> n] : n \in RequestedNames}
    \cup { r \in {[name |-> n, arguments |-> a] : n \in RequestedNames, a \in ToolArguments} :
             r.name # "opengrok_search"
               => DOMAIN r.arguments \subseteq {"query", "path", "symbol", "project"} }

SmallSearchPageReplies == UpstreamReplies({b \in SearchPages : SmallBody(b)})

SmallSearchReplies ==
  {r \in SearchReplies : r.kind = "response" => TotalHits([i \in 1..Len(r.data.results) |-> r.data.results[i].hits], 1) <= 1}

HtmlToolReplies(name) ==
  CASE name \in {"opengrok_search", "opengrok_xref"} -> SmallSearchPageReplies
    [] name = "opengrok_get_file" -> FilePageReplies
    [] OTHER -> MainPageReplies

RestToolReplies(name) ==
  CASE name \in {"opengrok_search", "opengrok_xref"} -> SmallSearchReplies
    [] name = "opengrok_get_suggestions" -> SuggesterReplies
    [] OTHER -> OpaqueReplies

ToolFinish(req, h) ==
  /\ request' = req
  /\ result' = h.result
  /\ op' = h.op
  /\ args' = h.args
  /\ calls' = h.run.calls
  /\ replies' = h.run.replies
  /\ norm' = h.run.norm
  /\ outcome' = h.run.outcome
  /\ UNCHANGED <<mode, config, process, concurrent, extension>>

HtmlCallTool ==
  /\ Idle /\ mode = "html-scrape"
  /\ \E req \in ToolRequests :
       \E reply1 \in HtmlToolReplies(req.name) :
         \E reply2 \in IF req.name = "opengrok_get_file" /\ reply1.kind = "response"
                          /\ reply1.status = 404
                       THEN FilePageReplies ELSE {reply1} :
           ToolFinish(req, Html_CallTool(req, config.defaultProject, reply1, reply2))

RestCallTool ==
  /\ Idle /\ mode = "rest-api"
  /\ \E req \in ToolRequests :
       \E reply \in RestToolReplies(req.name) :
         ToolFinish(req, Rest_CallTool(req, config.defaultProject, reply))

Next ==
  \/ HtmlCallTool
  \/ RestCallTool
  \/ HtmlSearch
  \/ HtmlGetFileContent
  \/ HtmlGetCrossReferences
  \/ HtmlListProjects
  \/ RestSearch
  \/ RestGetFileContent
  \/ RestGetCrossReferences
  \/ RestListProjects
  \/ RestGetAnnotation
  \/ RestGetDirectoryListing
  \/ RestGetHistory
  \/ RestGetFileDefinitions
  \/ RestGetFileGenre
  \/ RestPing
  \/ RestGetIndexedProjects
  \/ RestGetProjectRepositories
  \/ RestGetProjectRepositoryTypes
  \/ RestGetProjectIndexedFiles
  \/ RestGetSuggestions
  \/ RestGetLastIndexTime
  \/ RestGetVersion
  \/ ApiPing
  \/ ApiCheckGroupMatch
  \/ ApiReloadAuthorizationFramework
  \/ ApiSetConfiguration
  \/ ApiSetConfigurationField
  \/ ApiMarkProjectAsIndexed
  \/ ApiCheckRequestStatus

Spec == Init /\ [][Next]_vars

(***************************************************************************)
(* The server process from its start: getConfig, initializeClientAsync,    *)
(* main.  pc is the position of main: "start" before initializeClientAsync *)
(* runs, "authenticating" while it awaits isAuthenticated, "initialized"   *)
(* when it has returned, "connected" once the transport is connected and   *)
(* tool calls are handled, "exited" after a fatal error.                   *)
(***************************************************************************)
BaseUrls ==
  { <<"http://h", "/", "source">>,
    <<"http://h", "/", "source", "/">>,
    <<"http://h", "/", "source", "/", "/">> }

Environments ==
  [OPENGROK_URL : BaseUrls,
   OPENGROK_USERNAME : {Undefined, "user"},
   OPENGROK_PASSWORD : {Undefined, "pw"},
   OPENGROK_COOKIES : CookieStrings \cup {UndefinedChars},
   OPENGROK_USE_OAUTH : {Undefined, "true"}]

getConfig(env) ==
  [baseUrl |-> env.OPENGROK_URL,
   defaultProject |-> Undefined,
   username |-> OrElse(env.OPENGROK_USERNAME, Undefined),
   password |-> OrElse(env.OPENGROK_PASSWORD, Undefined),
   cookieString |-> IF TruthyChars(env.OPENGROK_COOKIES)
                    THEN env.OPENGROK_COOKIES ELSE UndefinedChars,
   useOAuth |-> env.OPENGROK_USE_OAUTH = "true"]

StartConfigs == {getConfig(env) : env \in Environments}

ProcessStart ==
  /\ mode \in Modes
  /\ config \in StartConfigs
  /\ pc = "start"
  /\ authHandler = Unassigned
  /\ openGrokClient = Unassigned
  /\ errors = <<>>
  /\ serialized = UndefinedChars
  /\ tasks = <<>>
  /\ latest = <<>>
  /\ mcpJson = Absent
  /\ activations = <<>>
  /\ request = NoRequest
  /\ result = [kind |-> "none"]
  /\ op = "none"
  /\ args = <<>>
  /\ calls = <<>>
  /\ replies = <<>>
  /\ norm = <<>>
  /\ outcome = [kind |-> "none"]

facade == <<op, args, calls, replies, norm, outcome, request, result>>

\* the condition of the cookie/SSO branch
UsesCookies(cfg) == cfg.useOAuth \/ (~Truthy(cfg.username) /\ ~Truthy(cfg.password))

\* the catch clause of initializeClientAsync: a client without credentials;
\* when that construction throws too, main's catch ends the process
CatchInitialize(logged, thrownAgain) ==
  /\ errors' = errors \o logged \o <<"Failed to initialize client:">>
                 \o (IF thrownAgain THEN <<"Fatal error:">> ELSE <<>>)
  /\ openGrokClient' = IF thrownAgain
                       THEN openGrokClient
                       ELSE OpenGrokClient(mode, config.baseUrl, Undefined, Undefined,
                                           Undefined)
  /\ pc' = IF thrownAgain THEN "exited" ELSE "initialized"

\* the cookie/SSO branch up to `await authHandler.isAuthenticated()`
InitializeWithCookies ==
  /\ pc = "start" /\ UsesCookies(config)
  /\ \E thrownAgain \in BOOLEAN :
       LET holder == OpenGrokAuth(config.baseUrl, config.cookieString)
           logged == <<"Using OAuth/SSO authentication...">> \o holder.logged
       IN  IF holder.thrown
           THEN CatchInitialize(logged, thrownAgain) /\ UNCHANGED authHandler
           ELSE /\ ~thrownAgain
                /\ authHandler' = holder
                /\ errors' = errors \o logged
                /\ pc' = "authenticating"
                /\ UNCHANGED openGrokClient
  /\ UNCHANGED <<mode, config, serialized, facade, concurrent, extension>>

\* the rest of the cookie/SSO branch, from the answer to isAuthenticated
IsAuthenticatedReturns ==
  /\ pc = "authenticating"
  /\ \E reply \in {Response(200, NoBody), Response(401, NoBody), NetErr},
        thrown \in BOOLEAN, thrownAgain \in BOOLEAN :
       LET isAuth == isAuthenticated(reply)
           logged == IF ~isAuth /\ ~TruthyChars(config.cookieString)
                     THEN <<"Not authenticated. Please do the following:">>
                     ELSE IF isAuth
                          THEN <<"Successfully authenticated with OAuth/SSO">>
                          ELSE <<>>
       IN  IF thrown
           THEN CatchInitialize(logged, thrownAgain)
           ELSE /\ ~thrownAgain
                /\ openGrokClient' = OpenGrokClient(mode, config.baseUrl, HolderJar,
                                                    Undefined, Undefined)
                /\ errors' = errors \o logged
                /\ pc' = "initialized"
  /\ UNCHANGED <<mode, config, authHandler, serialized, facade, concurrent, extension>>

\* the basic-authentication branch
InitializeWithBasicAuth ==
  /\ pc = "start" /\ ~UsesCookies(config)
  /\ \E thrown \in BOOLEAN, thrownAgain \in BOOLEAN :
       LET logged == <<"Using basic authentication...">>
       IN  IF thrown
           THEN CatchInitialize(logged, thrownAgain)
           ELSE /\ ~thrownAgain
                /\ openGrokClient' = OpenGrokClient(mode, config.baseUrl, Undefined,
                                                    config.username, config.password)
                /\ errors' = errors \o logged
                /\ pc' = "initialized"
  /\ UNCHANGED <<mode, config, authHandler, serialized, facade, concurrent, extension>>

\* main going on without awaiting initializeClientAsync
NotAwaited(p) == p \in {"start", "authenticating", "initialized"}

\* main goes on to connect the transport when initializeClientAsync returned
Initialized(p) == p = "initialized"

\* `await server.connect(transport)`
Connect ==
  /\ Initialized(pc)
  /\ pc' = "connected"
  /\ errors' = Append(errors, "OpenGrok MCP Server running on stdio")
  /\ UNCHANGED <<mode, config, authHandler, openGrokClient, serialized, facade, concurrent, extension>>

\* the tool calls of this specification: a search without project, a search
\* and a project listing, answered by an empty body
StartRequests ==
  { [name |-> "opengrok_list_projects"],
    [name |-> "opengrok_search", arguments |-> [query |-> "q"]],
    [name |-> "opengrok_search", arguments |-> [query |-> "q", project |-> "p"]] }

StartReply(m) == IF m = "html-scrape" THEN Response(200, <<>>) ELSE Response(401, NoBody)

\* a method call on the client variable when nothing was assigned to it
ClientUndefined ==
  <<Seg("Cannot read properties of undefined", NoCode)>>

\* a tool call handled by the connected server
HandleToolCall ==
  /\ pc = "connected" /\ Idle
  /\ \E req \in StartRequests :
       ToolFinish(req,
                  IF ~openGrokClient.assigned
                  THEN Rejected(ClientUndefined)
                  ELSE IF mode = "html-scrape"
                       THEN Html_CallTool(req, config.defaultProject, StartReply(mode),
                                          StartReply(mode))
                       ELSE Rest_CallTool(req, config.defaultProject, StartReply(mode)))

\* a call of getCookieString on the credential holder
GetCookieString ==
  /\ authHandler.assigned /\ serialized = UndefinedChars
  /\ pc = "connected" /\ Idle
  /\ serialized' = getCookieString(authHandler.cookieJar)
  /\ UNCHANGED <<mode, config, pc, authHandler, openGrokClient, errors, facade, concurrent, extension>>

StartNext ==
  \/ InitializeWithCookies
  \/ IsAuthenticatedReturns
  \/ InitializeWithBasicAuth
  \/ Connect
  \/ HandleToolCall
  \/ GetCookieString

Start == ProcessStart /\ [][StartNext]_vars

(***************************************************************************)
(* Facade operations in flight together on one html-scrape client.         *)
(*                                                                         *)
(* A call of an async method runs to its first await, where it has issued  *)
(* a request, and goes on when the answer to that request is delivered;    *)
(* calls interleave at their awaits only.  tasks[t] is the t-th call: its  *)
(* frame (parameters), the requests it issued and the answers it got so    *)
(* far, its normaliser applications and its outcome.  latest is the frame  *)
(* of the call begun last.                                                 *)
(***************************************************************************)
NotCalled ==
  [pc |-> "none", kind |-> "none", frame |-> <<>>, overlapped |-> FALSE, run |-> NotInvoked]

Awaiting(kind, frame, cs, rs) ==
  [pc |-> "awaiting", kind |-> kind, frame |-> frame, overlapped |-> FALSE,
   run |-> Run(cs, rs, <<>>, [kind |-> "none"])]

Settled(kind, frame, run) ==
  [pc |-> "done", kind |-> kind, frame |-> frame, overlapped |-> FALSE, run |-> run]

\* the parameters a continuation reads are those of its own call
FrameOfLatestCall(own, last) == last

FrameOfCall(own, last) == own

\* search, up to `await this.client.get('/search', ...)`
Html_searchCalled(frame) ==
  IF Html_projectMissing(frame.project)
  THEN Settled("search", frame,
               Run(<<>>, <<>>, <<>>,
                   Throw(<<Seg("Project is required for OpenGrok search. Please specify a project.", NoCode)>>)))
  ELSE Awaiting("search", frame,
                <<[method |-> "GET", url |-> <<"/search">>,
                   params |-> Html_searchParams(frame.query, frame.project,
                                                frame.searchType, frame.language)]>>,
                <<>>)

\* search, from the answer on
Html_searchResumed(task, f, reply) ==
  LET cs == task.run.calls
      rs == Append(task.run.replies, reply)
      response == AwaitHtml(reply)
  IN  Settled("search", task.frame,
        IF response.kind = "throw"
        THEN Run(cs, rs, <<>>, Rethrow("OpenGrok search failed", response))
        ELSE IF IsAuthStatus(reply.status)
        THEN Run(cs, rs, <<>>,
                 Rethrow("OpenGrok search failed", Throw(<<Seg(AuthText, reply.status)>>)))
        ELSE IF reply.status # 200
        THEN Run(cs, rs, <<>>,
                 Rethrow("OpenGrok search failed",
                   Throw(<<Seg("OpenGrok search failed with status", reply.status)>>)))
        ELSE LET results == parseSearchResults(reply.data, f.project)
             IN  Run(cs, rs, <<Normalised("parseSearchResults", reply.data, results)>>,
                     Return(Take(results, f.maxResults))))

\* getFileContent, up to the first `await this.client.get(url)`
Html_getFileContentCalled(frame) ==
  Awaiting("getFileContent", frame, <<Request("GET", <<"/xref", frame.path>>)>>, <<>>)

\* getFileContent, from an answer on: to the second await, or to the end
Html_getFileContentResumed(task, f, reply) ==
  LET cs == task.run.calls
      rs == Append(task.run.replies, reply)
      response == AwaitHtml(reply)
  IN  IF Len(cs) = 1 /\ response.kind = "return" /\ fallbackToProject(reply.status, f.project)
      THEN Awaiting("getFileContent", task.frame,
                    Append(cs, Request("GET", <<"/xref", f.project, f.path>>)), rs)
      ELSE Settled("getFileContent", task.frame,
             IF response.kind = "throw"
             THEN Run(cs, rs, <<>>, Rethrow("Failed to get file content", response))
             ELSE IF IsAuthStatus(reply.status)
             THEN Run(cs, rs, <<>>,
                      Rethrow("Failed to get file content",
                              Throw(<<Seg(AuthText, reply.status)>>)))
             ELSE IF reply.status # 200
             THEN Run(cs, rs, <<>>,
                      Rethrow("Failed to get file content",
                        Throw(<<Seg("Failed to get file", reply.status)>>)))
             ELSE LET content == extractFileContent(reply.data)
                  IN  Run(cs, rs, <<Normalised("extractFileContent", reply.data, content)>>,
                          Return(FileContent(f.path, content, OrElse(f.project, "")))))

\* the calls of this specification: a search without project, a search of
\* p for one result and a search of r; a file without project and two
\* files of project p
SearchFrames ==
  { [query |-> "q", project |-> f[1], searchType |-> "full", language |-> Undefined,
     maxResults |-> f[2]] : f \in {<<"", 1>>, <<"p", 1>>, <<"r", DefaultMaxResults>>} }

FileFrames ==
  { [path |-> f[1], project |-> f[2]] : f \in {<<"a", Undefined>>, <<"a", "p">>, <<"b", "p">>} }

TaskSearchReplies ==
  { Response(200, <<Anchor("s", "a", <<"7">>, <<"x">>), Anchor("s", "b", <<"7">>, <<"z">>)>>),
    Response(401, NoBody), NetErr }

TaskFileReplies == {Response(200, HelloPage), Response(404, NoBody), Response(403, NoBody)}

\* every other call that is at an await has now seen a step of another call
Overlap(ts, t) ==
  [u \in DOMAIN ts |->
     IF u # t /\ ts[u].pc = "awaiting" THEN [ts[u] EXCEPT !.overlapped = TRUE] ELSE ts[u]]

ConcurrentInit ==
  /\ mode = "html-scrape"
  /\ config = [defaultProject |-> Undefined]
  /\ tasks = [t \in 1..MaxTasks |-> NotCalled]
  /\ latest = <<>>
  /\ mcpJson = Absent
  /\ activations = <<>>
  /\ request = NoRequest
  /\ result = [kind |-> "none"]
  /\ op = "none"
  /\ args = <<>>
  /\ calls = <<>>
  /\ replies = <<>>
  /\ norm = <<>>
  /\ outcome = [kind |-> "none"]
  /\ pc = "connected"
  /\ authHandler = Unassigned
  /\ openGrokClient = OpenGrokClient(mode, <<"http://localhost:8080", "/", "source">>,
                                     Undefined, Undefined, Undefined)
  /\ errors = <<>>
  /\ serialized = UndefinedChars

CallSearch ==
  \E t \in 1..MaxTasks, frame \in SearchFrames :
    /\ tasks[t].pc = "none"
    /\ tasks' = [Overlap(tasks, t) EXCEPT ![t] = Html_searchCalled(frame)]
    /\ latest' = frame
    /\ UNCHANGED <<mode, config, facade, process, extension>>

CallGetFileContent ==
  \E t \in 1..MaxTasks, frame \in FileFrames :
    /\ tasks[t].pc = "none"
    /\ tasks' = [Overlap(tasks, t) EXCEPT ![t] = Html_getFileContentCalled(frame)]
    /\ latest' = frame
    /\ UNCHANGED <<mode, config, facade, process, extension>>

\* the answer to the request a call awaits is delivered
ResumeSearch ==
  \E t \in 1..MaxTasks, reply \in TaskSearchReplies :
    /\ tasks[t].pc = "awaiting" /\ tasks[t].kind = "search"
    /\ tasks' = [Overlap(tasks, t) EXCEPT
                   ![t] = [Html_searchResumed(tasks[t], FrameOfCall(tasks[t].frame, latest),
                                              reply)
                             EXCEPT !.overlapped = tasks[t].overlapped]]
    /\ UNCHANGED <<mode, config, facade, process, latest, extension>>

ResumeGetFileContent ==
  \E t \in 1..MaxTasks, reply \in TaskFileReplies :
    /\ tasks[t].pc = "awaiting" /\ tasks[t].kind = "getFileContent"
    /\ tasks' = [Overlap(tasks, t) EXCEPT
                   ![t] = [Html_getFileContentResumed(tasks[t],
                                                      FrameOfCall(tasks[t].frame, latest),
                                                      reply)
                             EXCEPT !.overlapped = tasks[t].overlapped]]
    /\ UNCHANGED <<mode, config, facade, process, latest, extension>>

ConcurrentNext ==
  \/ CallSearch
  \/ CallGetFileContent
  \/ ResumeSearch
  \/ ResumeGetFileContent

Concurrent == ConcurrentInit /\ [][ConcurrentNext]_vars

(***************************************************************************)
(* The editor extension from the state of mcp.json it finds.               *)
(***************************************************************************)
ExtensionInit ==
  /\ mcpJson \in McpFiles
  /\ activations = <<>>
  /\ mode = "rest-api"
  /\ config = [defaultProject |-> Undefined]
  /\ tasks = <<>>
  /\ latest = <<>>
  /\ request = NoRequest
  /\ result = [kind |-> "none"]
  /\ op = "none"
  /\ args = <<>>
  /\ calls = <<>>
  /\ replies = <<>>
  /\ norm = <<>>
  /\ outcome = [kind |-> "none"]
  /\ pc = "start"
  /\ authHandler = Unassigned
  /\ openGrokClient = Unassigned
  /\ errors = <<>>
  /\ serialized = UndefinedChars

\* activate: the extension registers its server
Activate ==
  /\ Len(activations) < MaxActivations
  /\ \E installed \in BOOLEAN, url \in {Undefined, "http://h/source"},
        cookies \in {Undefined, "a=1"}, writeFails \in BOOLEAN :
       LET registered == registerMcpServer(mcpJson, installed, url, cookies, writeFails)
       IN  /\ mcpJson' = registered.file
           /\ activations' = Append(activations, registered.ended)
  /\ UNCHANGED <<mode, config, facade, process, concurrent>>

ExtensionNext == Activate

Extension == ExtensionInit /\ [][ExtensionNext]_vars

(***************************************************************************)
(* Vocabulary of the properties.                                           *)
(***************************************************************************)
Invoked == op # "none"

Html == mode = "html-scrape"

Rest == mode = "rest-api"

\* the reply that decided the outcome: the last one the operation observed
LastReply == replies[Len(replies)]

Answered == Invoked /\ Len(replies) >= 1 /\ LastReply.kind = "response"

HasSegment(o, text, code) ==
  /\ o.kind = "throw"
  /\ \E i \in 1..Len(o.msg) : o.msg[i].text = text /\ o.msg[i].code = code

IsAuthFailure(o, status) == HasSegment(o, AuthText, status)

CarriesCode(o, status) ==
  /\ o.kind = "throw"
  /\ \E i \in 1..Len(o.msg) : o.msg[i].code = status

\* the value of a string of decimal digits
RECURSIVE Pow10(_)
Pow10(n) == IF n = 0 THEN 1 ELSE 10 * Pow10(n - 1)

RECURSIVE DecimalFrom(_, _)
DecimalFrom(t, i) ==
  IF i > Len(t) THEN 0 ELSE DigitVal(t[i]) * Pow10(Len(t) - i) + DecimalFrom(t, i + 1)

Decimal(t) == DecimalFrom(t, 1)

\* the anchors of a page that the result pattern matches, in page order
Recognised(html) == SelectSeq(html, resultPattern)

AnchorPair(el) == <<el.path, Decimal(el.line)>>

HitPair(h) == <<h.path, h.line>>

\* positions, among the recognised anchors, of the first anchor of each pair
FirstOccurrences(A) ==
  {i \in 1..Len(A) : \A j \in 1..(i - 1) : AnchorPair(A[j]) # AnchorPair(A[i])}

NthOf(S, k) == CHOOSE i \in S : Cardinality({j \in S : j <= i}) = k

ExtractionIsExact(html, out) ==
  LET A == Recognised(html)
      M == Cardinality({AnchorPair(A[i]) : i \in 1..Len(A)})
      F == FirstOccurrences(A)
  IN  /\ Len(out) = M
      /\ \A k \in 1..M :
           /\ HitPair(out[k]) = AnchorPair(A[NthOf(F, k)])
           /\ out[k].snippet = A[NthOf(F, k)].inner

NoDuplicateHits(hits) ==
  \A i, j \in 1..Len(hits) : i # j => HitPair(hits[i]) # HitPair(hits[j])

\* C2: in every result set returned by search, in either mode, no two hits
\* share the same (path, line) pair.
C2_NoDuplicateHits ==
  (op = "search" /\ outcome.kind = "return") => NoDuplicateHits(outcome.value)

RECURSIVE SumOfLens(_, _)
SumOfLens(entries, i) ==
  IF i > Len(entries) THEN 0 ELSE Len(entries[i].hits) + SumOfLens(entries, i + 1)

HitsOfPath(out, filePath) == SelectSeq(out, LAMBDA h : h.path = filePath)

\* C3: flattening a REST search response yields exactly sum(H_i) hits, and
\* the hits of each path, in order, are those of the response's list for it.
C3_FlatteningKeepsEveryHit ==
  \A i \in 1..Len(norm) :
    norm[i].fn = "transformSearchResults" =>
      LET entries == norm[i].arg.results
          out == norm[i].out
      IN  /\ Len(out) = SumOfLens(entries, 1)
          /\ \A e \in 1..Len(entries) :
               LET mine == HitsOfPath(out, entries[e].filePath)
               IN  /\ Len(mine) = Len(entries[e].hits)
                   /\ \A k \in 1..Len(mine) : mine[k].snippet = entries[e].hits[k].line

\* operations whose contract is to hand the status back as a value
StatusAsValueOps == {"ping", "api.ping", "api.checkRequestStatus"}

\* C4: a 401 or 403 from the upstream yields the authentication failure,
\* 'Authentication failed (<status>)', on every facade operation.
C4_AuthStatusIsAuthFailure ==
  (Answered /\ op \notin StatusAsValueOps /\ IsAuthStatus(LastReply.status))
    => IsAuthFailure(outcome, LastReply.status)

\* C5: html-scrape getFileContent, the upstream answering 404 for
\* /xref/{path} and 200 for /xref/{project}/{path}: the operation succeeds
\* after exactly those two calls in that order, with the content extracted
\* from the second response.
C5_FallbackSucceeds ==
  ( /\ Html /\ op = "getFileContent" /\ Truthy(args.project)
    /\ args.mock[1].kind = "response" /\ args.mock[1].status = 404
    /\ args.mock[2].kind = "response" /\ args.mock[2].status = 200 )
  => /\ calls = <<Request("GET", <<"/xref", args.path>>),
                  Request("GET", <<"/xref", args.project, args.path>>)>>
     /\ replies = args.mock
     /\ outcome.kind = "return"
     /\ Len(norm) = 1 /\ norm[1].fn = "extractFileContent"
     /\ norm[1].arg = args.mock[2].data
     /\ outcome.value.content = norm[1].out

\* the fallback was taken and the two pages differ in what they contain
C5_Witness ==
  /\ Html /\ op = "getFileContent" /\ Truthy(args.project)
  /\ args.mock[1].kind = "response" /\ args.mock[1].status = 404
  /\ args.mock[2].kind = "response" /\ args.mock[2].status = 200
  /\ Len(calls) = 2
  /\ outcome.kind = "return"
  /\ outcome.value.content = <<"y">>
  /\ args.mock[1].data = <<Block("pre", <<"x">>)>>

\* how one response alone decides getFileContent
DecidedBy(reply, o) ==
  IF reply.kind = "neterr"
  THEN o.kind = "throw"
  ELSE IF reply.status = 200
       THEN o.kind = "return"
       ELSE IF IsAuthStatus(reply.status)
            THEN IsAuthFailure(o, reply.status)
            ELSE CarriesCode(o, reply.status) /\ ~IsAuthFailure(o, reply.status)

\* C6: html-scrape getFileContent issues at most two calls; the second one
\* exactly when the first response was a 404 and a project was supplied;
\* otherwise the single call decides the outcome.
C6_AtMostOneFallback ==
  (Html /\ op = "getFileContent") =>
    /\ Len(calls) \in {1, 2}
    /\ Len(calls) = 2 <=>
         ( /\ args.mock[1].kind = "response" /\ args.mock[1].status = 404
           /\ Truthy(args.project) )
    /\ replies = SubSeq(args.mock, 1, Len(calls))
    /\ Len(calls) = 1 => DecidedBy(args.mock[1], outcome)

\* a 404 without a project: one call, and the 404 is the failure
C6_Witness ==
  /\ Html /\ op = "getFileContent" /\ ~Truthy(args.project)
  /\ args.mock[1].kind = "response" /\ args.mock[1].status = 404
  /\ args.mock[2].kind = "response" /\ args.mock[2].status = 200
  /\ Len(calls) = 1
  /\ CarriesCode(outcome, 404)

ProjectRequired ==
  Throw(<<Seg("Project is required for OpenGrok search. Please specify a project.", NoCode)>>)

\* C7: search with an empty or missing project fails with 'Project is
\* required ...' and issues no network call, in both modes.
C7_ProjectRequiredBeforeNetwork ==
  (op = "search" /\ args.project \in {"", Undefined})
    => outcome = ProjectRequired /\ calls = <<>> /\ replies = <<>>

C7_Witness ==
  /\ Html /\ op = "search" /\ args.project = ""
  /\ outcome = ProjectRequired /\ calls = <<>>

\* C8: ping returns a boolean for every upstream outcome: true exactly when
\* the upstream answered 200, false on any transport failure.
C8_PingNeverRaises ==
  op \in {"ping", "api.ping"} =>
    /\ outcome.kind = "return"
    /\ outcome.value \in BOOLEAN
    /\ outcome.value <=> (LastReply.kind = "response" /\ LastReply.status = 200)

\* the API client's ping swallowed a transport failure
C8_Witness ==
  /\ op = "api.ping" /\ LastReply.kind = "neterr"
  /\ outcome = Return(FALSE)

TransportRefusal(o) ==
  /\ o.kind = "throw"
  /\ \E i \in 1..Len(o.msg) : o.msg[i].text = "Request failed with status code"

\* C9 as stated: whatever status the upstream answers with, in either mode,
\* the adapter does not throw because of it.
C9_NoStatusIsRefused ==
  Answered => ~TransportRefusal(outcome)

\* C9 amended: the html-scrape adapter refuses no status; the rest-api
\* adapter refuses exactly the statuses outside 200..499, and the facade
\* sees every status it does not refuse.
C9_OnlyRestRefusesOutside2xxTo4xx ==
  (Answered /\ op \notin {"ping", "api.ping"}) =>
    /\ Html => ~TransportRefusal(outcome)
    /\ Rest => (TransportRefusal(outcome)
                  <=> (LastReply.status < 200 \/ LastReply.status >= 500))
    /\ TransportRefusal(outcome) => CarriesCode(outcome, LastReply.status)

\* the rest-api adapter refused a 500 and the failure still names it
C9_Witness ==
  /\ Rest /\ Answered /\ op = "getAnnotation"
  /\ LastReply.status = 500
  /\ TransportRefusal(outcome)
  /\ CarriesCode(outcome, 500)

\* the statuses an operation accepts as success
SuccessCodes(name) ==
  CASE name \in {"api.reloadAuthorizationFramework", "api.setConfigurationField",
                 "api.markProjectAsIndexed"} -> {202, 204}
    [] name = "api.setConfiguration" -> {201, 202}
    [] name = "api.checkGroupMatch" -> {200, 204}
    [] OTHER -> {200}

\* C10: on every operation but ping and checkRequestStatus, a status that
\* is neither a success code of the operation nor 401/403 yields a failure
\* that carries the status.
C10_OtherStatusFails ==
  ( /\ Answered /\ op \notin StatusAsValueOps
    /\ LastReply.status \notin SuccessCodes(op)
    /\ ~IsAuthStatus(LastReply.status) )
  => CarriesCode(outcome, LastReply.status)

\* the handling of a tool request
ToolCalled == request # NoRequest

KnownTools == IF Html THEN HtmlToolNames ELSE RestToolNames

\* a result with the error flag and the single text item 'Error: <message>'
IsErrorResult(res, message) ==
  /\ DOMAIN res = {"content", "isError"}
  /\ res.isError = TRUE
  /\ Len(res.content) = 1
  /\ res.content[1].type = "text"
  /\ res.content[1].text = <<Seg("Error", NoCode)>> \o message

\* C11: the tool-call handler never throws past itself: for every tool name
\* and every facade outcome it returns a result object; a failed facade call
\* or an unknown tool name gives isError = true and the single text item
\* 'Error: <message>', a successful facade call gives no error flag.
C11_HandlerAlwaysReturnsResult ==
  ToolCalled =>
    /\ result.kind = "return"
    /\ "content" \in DOMAIN result.value
    /\ outcome.kind = "throw" => IsErrorResult(result.value, outcome.msg)
    /\ request.name \notin KnownTools =>
         IsErrorResult(result.value, UnknownTool(request.name))
    /\ outcome.kind = "return" => "isError" \notin DOMAIN result.value

\* a facade call that failed through the network was turned into an error
\* result whose text wraps the facade's message
C11_Witness ==
  /\ ToolCalled /\ Rest /\ request.name = "opengrok_get_annotation"
  /\ Invoked /\ LastReply.kind = "neterr"
  /\ outcome.kind = "throw"
  /\ result.kind = "return"
  /\ IsErrorResult(result.value, outcome.msg)

\* the three escapes decoded in one pass, left to right
RECURSIVE DecodeOnceFrom(_, _)
DecodeOnceFrom(s, i) ==
  IF i > Len(s)
  THEN <<>>
  ELSE IF StartsWith(s, i, <<"&", "l", "t", ";">>)
       THEN <<"<">> \o DecodeOnceFrom(s, i + 4)
       ELSE IF StartsWith(s, i, <<"&", "g", "t", ";">>)
            THEN <<">">> \o DecodeOnceFrom(s, i + 4)
            ELSE IF StartsWith(s, i, <<"&", "a", "m", "p", ";">>)
                 THEN <<"&">> \o DecodeOnceFrom(s, i + 5)
                 ELSE <<s[i]>> \o DecodeOnceFrom(s, i + 1)

DecodeOnce(s) == DecodeOnceFrom(s, 1)

HasPre(html) == \E i \in 1..Len(html) : html[i].tag = "pre"

FirstPre(html) ==
  html[CHOOSE i \in 1..Len(html) :
         html[i].tag = "pre" /\ \A j \in 1..(i - 1) : html[j].tag # "pre"].inner

HelloText ==
  <<"H", "e", "l", "l", "o", " ", "&", " ", "<", "w", "o", "r", "l", "d", ">">>

\* C12 as stated: the content extracted from a page with a <pre> block is
\* the inner text of the first such block with the tags removed and the
\* escapes &lt;, &gt;, &amp; decoded once, nothing else being changed.
C12_ContentIsDecodedInnerText ==
  \A i \in 1..Len(norm) :
    (norm[i].fn = "extractFileContent" /\ HasPre(norm[i].arg)) =>
      norm[i].out = DecodeOnce(StripTags(FirstPre(norm[i].arg)))

\* C12 amended: ... and leading and trailing whitespace is then trimmed;
\* '<pre>Hello &amp; &lt;world&gt;</pre>' yields 'Hello & <world>'.
C12_ContentIsTrimmedDecodedInnerText ==
  \A i \in 1..Len(norm) :
    (norm[i].fn = "extractFileContent" /\ HasPre(norm[i].arg)) =>
      /\ norm[i].out = Trim(DecodeOnce(StripTags(FirstPre(norm[i].arg))))
      /\ norm[i].arg = HelloPage => norm[i].out = HelloText

\* the block ' &lt;b&gt;<i>&amp;gt;</i>\n' was extracted as '<b>&gt;': the
\* tags removed, each escape decoded once, the whitespace trimmed
C12_Witness ==
  /\ Html /\ op = "getFileContent" /\ outcome.kind = "return"
  /\ Len(norm) = 1 /\ norm[1].fn = "extractFileContent"
  /\ norm[1].arg = EscapedPage
  /\ outcome.value.content = <<"<", "b", ">", "&", "g", "t", ";">>

\* C13: html-scrape getFileContent on a status-200 response whose page has
\* no <pre> block succeeds, and the content is the fixed string 'File
\* content could not be extracted'.
C13_NoBlockGivesSentinel ==
  ( /\ Html /\ op = "getFileContent" /\ Answered
    /\ LastReply.status = 200 /\ ~HasPre(LastReply.data) )
  => /\ outcome.kind = "return"
     /\ outcome.value.content = <<"File content could not be extracted">>
     /\ outcome.value.path = args.path

\* a page with a block that is not a <pre> block gave the fixed string
C13_Witness ==
  /\ Html /\ op = "getFileContent" /\ Answered
  /\ LastReply.status = 200
  /\ LastReply.data = <<Block("div", <<"n">>)>>
  /\ outcome.kind = "return"
  /\ outcome.value.content = <<"File content could not be extracted">>

\* the hit records of a response, file after file, each with its path
RECURSIVE FlatRecords(_, _)
FlatRecords(entries, i) ==
  IF i > Len(entries)
  THEN <<>>
  ELSE [k \in 1..Len(entries[i].hits) |->
          [path |-> entries[i].filePath, hit |-> entries[i].hits[k]]]
       \o FlatRecords(entries, i + 1)

IsNumeric(t) == Len(t) >= 1 /\ \A i \in 1..Len(t) : t[i] \in Digits

\* the line a lineNumber string stands for: its value, 0 when it is empty
\* or not a number
LineOf(t) == IF IsNumeric(t) THEN Decimal(t) ELSE 0

\* C14: REST search normalisation turns every hit record of the response
\* into a hit whose line is the non-negative integer its lineNumber parses
\* to (0 when empty or non-numeric) and whose snippet is the record's
\* highlighted line unchanged.
C14_EveryRecordParsedOrZero ==
  \A i \in 1..Len(norm) :
    norm[i].fn = "transformSearchResults" =>
      LET flat == FlatRecords(norm[i].arg.results, 1)
          out == norm[i].out
      IN  /\ Len(out) = Len(flat)
          /\ \A k \in 1..Len(out) :
               /\ out[k].line \in Nat
               /\ out[k].path = flat[k].path
               /\ out[k].line = LineOf(flat[k].hit.lineNumber)
               /\ out[k].snippet = flat[k].hit.line

\* the keys of a request's params that carry the search text
TextKeys(params, keys) == {k \in keys : params[k] # Undefined}

HtmlKeys == {"full", "defs", "refs", "path", "hist"}

RestKeys == {"full", "def", "symbol", "path", "hist"}

HtmlKeyOf(searchType) ==
  CASE searchType = "defs" -> "defs"
    [] searchType = "refs" -> "refs"
    [] searchType = "path" -> "path"
    [] searchType = "hist" -> "hist"
    [] OTHER -> "full"

RestKeyOf(searchType) ==
  CASE searchType = "defs" -> "def"
    [] searchType = "refs" -> "symbol"
    [] searchType = "path" -> "path"
    [] searchType = "hist" -> "hist"
    [] OTHER -> "full"

\* C15: the request of a search carries the query under exactly one key:
\* in html-scrape mode full, defs, refs, path, hist for the search types of
\* these names, in rest-api mode full, def, symbol, path, hist; no other
\* search-text key is sent, and an unrecognised type is treated as full.
C15_OneKeyPerSearchType ==
  (op = "search" /\ Len(calls) = 1) =>
    LET params == calls[1].params
    IN  /\ Html => /\ DOMAIN params \cap {"def", "symbol", "q"} = {}
                   /\ TextKeys(params, HtmlKeys) = {HtmlKeyOf(args.searchType)}
                   /\ params[HtmlKeyOf(args.searchType)] = "q"
        /\ Rest => /\ DOMAIN params \cap {"defs", "refs", "q"} = {}
                   /\ TextKeys(params, RestKeys) = {RestKeyOf(args.searchType)}
                   /\ params[RestKeyOf(args.searchType)] = "q"

\* a references search in rest-api mode sent the query as `symbol`
C15_Witness ==
  /\ Rest /\ op = "search" /\ Len(calls) = 1
  /\ args.searchType = "refs"
  /\ calls[1].params.symbol = "q"
  /\ calls[1].params.full = Undefined

Normalisers ==
  {"parseSearchResults", "extractFileContent", "parseProjects", "transformSearchResults"}

\* C16: in both pipelines no normaliser (parseSearchResults,
\* extractFileContent, parseProjects, transformSearchResults) is applied to
\* the body of a 401 or 403 response: the invocation that received one
\* applied none and ended in a failure.
C16_NoNormaliserOnAuthFailureBody ==
  \A i \in 1..Len(replies) :
    (replies[i].kind = "response" /\ replies[i].status \in {401, 403}) =>
      /\ \A k \in 1..Len(norm) :
           norm[k].fn \in Normalisers => norm[k].arg # replies[i].data
      /\ norm = <<>>
      /\ op \notin StatusAsValueOps => outcome.kind = "throw"

\* a 403 answer to the cross-reference search carried a page with a result
\* anchor, and the page was not parsed
C16_Witness ==
  /\ Html /\ op = "getCrossReferences" /\ Answered
  /\ LastReply.status = 403
  /\ Len(Recognised(LastReply.data)) >= 1
  /\ norm = <<>>
  /\ HasSegment(outcome, AuthText, 403)

\* the methods of the API client that no facade operation wraps
ApiOnlyOps ==
  {"api.ping", "api.checkGroupMatch", "api.reloadAuthorizationFramework",
   "api.setConfiguration", "api.setConfigurationField", "api.markProjectAsIndexed",
   "api.checkRequestStatus"}

FacadeInvoked == Invoked /\ op \notin ApiOnlyOps

\* search is the one operation with a local validation
PassedValidation == op = "search" => Truthy(args.project)

\* a call that failed: no response, or a response with an error status
FailedCall(reply) == reply.kind = "neterr" \/ reply.status >= 400

\* the caller is told: the operation throws, ping answers false
Surfaced(name, o) == o.kind = "throw" \/ (name = "ping" /\ o = Return(FALSE))

\* C17: every facade operation other than get-file issues exactly one
\* network call per invocation that passes local validation, and a failed
\* call (transport error, auth failure, upstream error) is surfaced to the
\* caller without any retry.
C17_OneCallAndFailureSurfaced ==
  (FacadeInvoked /\ op # "getFileContent" /\ PassedValidation) =>
    /\ Len(calls) = 1
    /\ Len(replies) = 1
    /\ FailedCall(replies[1]) => Surfaced(op, outcome)

AsyncWrites ==
  {"api.reloadAuthorizationFramework", "api.setConfiguration",
   "api.setConfigurationField", "api.markProjectAsIndexed"}

\* the status that answers a write carried out at once
SyncCode(name) == IF name = "api.setConfiguration" THEN 201 ELSE 204

WriteRequest(name) ==
  CASE name = "api.reloadAuthorizationFramework" ->
         Request("POST", <<"/configuration/authorization/reload">>)
    [] name = "api.setConfiguration" -> Request("PUT", <<"/configuration">>)
    [] name = "api.setConfigurationField" -> Request("PUT", <<"/configuration", "f">>)
    [] name = "api.markProjectAsIndexed" -> Request("PUT", <<"/projects", "p", "indexed">>)

\* C18: for reloadAuthorizationFramework, setConfiguration,
\* setConfigurationField and markProjectAsIndexed a 202 is a success: the
\* operation completes without error after its single request and never
\* calls /status/{id}; the synchronous code (204, 201, 204, 204) succeeds
\* too, and every other status that is not 401/403 fails.
C18_AcceptedWriteNeedsNoPolling ==
  (op \in AsyncWrites) =>
    /\ calls = <<WriteRequest(op)>>
    /\ \A i \in 1..Len(calls) : calls[i].url[1] # "/status"
    /\ LastReply.kind = "response" =>
         /\ LastReply.status \in {202, SyncCode(op)} => outcome = Return(<<>>)
         /\ LastReply.status \notin {202, SyncCode(op), 401, 403} => outcome.kind = "throw"

\* setConfiguration was answered 202 and completed after its one request
C18_Witness ==
  /\ op = "api.setConfiguration" /\ Answered
  /\ LastReply.status = 202
  /\ calls = <<Request("PUT", <<"/configuration">>)>>
  /\ outcome = Return(<<>>)

\* an anchor the result pattern cannot match: another class, no line
\* fragment in the href, or inner markup that runs over a line terminator
CannotMatch(el) ==
  \/ el.cls # "s"
  \/ el.line = <<>>
  \/ \E i \in 1..Len(el.inner) : el.inner[i] = "\n"

GenericAnchors(html) == Cardinality({i \in 1..Len(html) : html[i].cls = "s"})

\* C19: html-scrape search on a status-200 page in which no anchor matches
\* the result pattern succeeds with an empty result list, whether or not
\* the page has generic anchors of the same class.
C19_NoMatchIsEmptySuccess ==
  ( /\ Html /\ op = "search" /\ Answered /\ LastReply.status = 200
    /\ \A i \in 1..Len(LastReply.data) : CannotMatch(LastReply.data[i]) )
  => /\ outcome = Return(<<>>)
     /\ Len(norm) = 1 /\ norm[1].out = <<>>

\* a page with two generic anchors of class s, none of them a result
C19_Witness ==
  /\ Html /\ op = "search" /\ Answered /\ LastReply.status = 200
  /\ Len(LastReply.data) = 2
  /\ GenericAnchors(LastReply.data) = 2
  /\ \A i \in 1..Len(LastReply.data) : CannotMatch(LastReply.data[i])
  /\ outcome = Return(<<>>)

Min(a, b) == IF a <= b THEN a ELSE b

\* C20: search returns the first min(maxResults, n) of the n normalised
\* hits, in their normalised order; maxResults is 50 when the caller gives
\* none.
C20_AtMostMaxResults ==
  (op = "search" /\ outcome.kind = "return") =>
    /\ Len(norm) = 1
    /\ LET hits == norm[1].out
           k == Min(args.maxResults, Len(hits))
       IN  /\ Len(outcome.value) = k
           /\ \A i \in 1..k : outcome.value[i] = hits[i]
    /\ (ToolCalled /\ "maxResults" \notin DOMAIN request.arguments) => args.maxResults = 50

\* three hits were normalised and maxResults = 1 kept the first of them
C20_Witness ==
  /\ Html /\ op = "search" /\ outcome.kind = "return"
  /\ args.maxResults = 1
  /\ Len(norm) = 1 /\ Len(norm[1].out) = 3
  /\ outcome.value = <<norm[1].out[1]>>

(***************************************************************************)
(* The credential holder.                                                  *)
(***************************************************************************)
\* the segments of the configured cookie string, trimmed; none when no
\* cookie string is configured
Segments ==
  IF TruthyChars(config.cookieString)
  THEN LET parts == split(config.cookieString, ";")
       IN  [i \in 1..Len(parts) |-> Trim(parts[i])]
  ELSE <<>>

FirstEq(t) == CHOOSE i \in 1..Len(t) : t[i] = "=" /\ \A j \in 1..(i - 1) : t[j] # "="

\* a segment name=value: a name, "=", and a value without ";" or "=", and
\* no white space
NameValue(t) ==
  /\ \E i \in 2..Len(t) : t[i] = "="
  /\ t[1] # "="
  /\ \A i \in 1..Len(t) : t[i] \notin WhiteSpace /\ t[i] # ";"
  /\ \A i \in (FirstEq(t) + 1)..Len(t) : t[i] # "="

NameOf(t) == SubSeq(t, 1, FirstEq(t) - 1)

\* the pairs of a serialised string: what stands between the "; "
PairsOf(s) ==
  LET parts == split(s, ";")
  IN  [i \in 1..Len(parts) |-> IF i = 1 THEN parts[i] ELSE Tail(parts[i])]

\* s is made of name=value pairs joined by "; "
JoinedPairs(s) ==
  \/ s = <<>>
  \/ LET parts == split(s, ";")
     IN  /\ \A i \in 2..Len(parts) : Len(parts[i]) > 0 /\ parts[i][1] = " "
         /\ \A i \in 1..Len(parts) : NameValue(PairsOf(s)[i])

Present(t, s) == \E i \in 1..Len(PairsOf(s)) : PairsOf(s)[i] = t

Serialized == serialized # UndefinedChars

AOneBTwo == <<"a", "=", "1", ";", " ", "b", "=", "2">>

\* C21 (as stated): once getCookieString has returned, every name=value
\* segment of the loaded cookie string (value without ";" and "=") is one
\* of the pairs of the returned string, unchanged, and the pairs are joined
\* by "; "; from 'a=1; b=2' the string has both 'a=1' and 'b=2'.
C21_EverySegmentSerialized ==
  Serialized =>
    /\ JoinedPairs(serialized)
    /\ \A i \in 1..Len(Segments) :
         NameValue(Segments[i]) => Present(Segments[i], serialized)
    /\ config.cookieString = AOneBTwo =>
         /\ Present(<<"a", "=", "1">>, serialized)
         /\ Present(<<"b", "=", "2">>, serialized)

\* C21 (amended): the same for every name=value segment whose name is not
\* set again by a later name=value segment; of the segments of one name the
\* jar holds the last.
C21_LastSegmentOfEachNameSerialized ==
  Serialized =>
    /\ JoinedPairs(serialized)
    /\ \A i \in 1..Len(Segments) :
         ( /\ NameValue(Segments[i])
           /\ \A j \in (i + 1)..Len(Segments) :
                NameValue(Segments[j]) => NameOf(Segments[j]) # NameOf(Segments[i]) )
           => Present(Segments[i], serialized)
    /\ config.cookieString = AOneBTwo =>
         /\ Present(<<"a", "=", "1">>, serialized)
         /\ Present(<<"b", "=", "2">>, serialized)

C21_Witness ==
  /\ config.cookieString = AOneBTwo
  /\ serialized = AOneBTwo

Count(log, text) == Cardinality({i \in 1..Len(log) : log[i] = text})

\* a segment the jar cannot set: no "=", or nothing before it
Unparseable(t) == (\A i \in 1..Len(t) : t[i] # "=") \/ (Len(t) > 0 /\ t[1] = "=")

LastOfItsName(i) ==
  \A j \in (i + 1)..Len(Segments) :
    NameValue(Segments[j]) => NameOf(Segments[j]) # NameOf(Segments[i])

Holds(jar, t) == \E k \in 1..Len(jar) : jar[k].key \o <<"=">> \o jar[k].value = t

\* C22: when the cookie/SSO branch has run, the credential holder is
\* constructed whatever the cookie string was; each segment that cannot be
\* set is logged once and skipped, and the jar holds every name=value
\* segment before and after it (the last one of each name).
C22_LoadingNeverFails ==
  (pc # "start" /\ UsesCookies(config)) =>
    /\ authHandler.assigned
    /\ Count(errors, "Failed to set cookie:")
         = Cardinality({i \in 1..Len(Segments) : Unparseable(Segments[i])})
    /\ \A i \in 1..Len(Segments) :
         (NameValue(Segments[i]) /\ LastOfItsName(i))
           => Holds(authHandler.cookieJar, Segments[i])

C22_Witness ==
  /\ config.cookieString = <<"a", "=", "1", ";", "b", "a", "d", ";", " ", "b", "=", "2">>
  /\ authHandler.assigned
  /\ authHandler.cookieJar = <<[key |-> <<"a">>, value |-> <<"1">>],
                               [key |-> <<"b">>, value |-> <<"2">>]>>
  /\ errors = <<"Using OAuth/SSO authentication...", "Failed to set cookie:">>

(***************************************************************************)
(* The project list of the main page.                                      *)
(***************************************************************************)
\* what an option element contributes: its value, its label when the value
\* is empty
Contribution(o) == IF Len(o.value) = 0 THEN o.label ELSE o.value

Blank(name) == \A i \in 1..Len(name) : name[i] \in WhiteSpace

Trimmed(name) ==
  Len(name) > 0 /\ name[1] \notin WhiteSpace /\ name[Len(name)] \notin WhiteSpace

\* the name without the white space around it
Stripped(name) ==
  LET ink == {i \in 1..Len(name) : name[i] \notin WhiteSpace}
  IN  SubSeq(name, CHOOSE i \in ink : \A j \in ink : i <= j,
                   CHOOSE i \in ink : \A j \in ink : j <= i)

\* the option elements that are kept, in page order
Kept(page) == {i \in 1..Len(page) : ~Blank(Contribution(page[i]))}

\* the position in the page of the k-th kept option element
KeptAt(page, k) ==
  CHOOSE i \in Kept(page) : Cardinality({j \in Kept(page) : j <= i}) = k

\* C23: parseProjects returns, in page order, the contribution of each
\* option element (value, or label when the value is empty) whose
\* contribution is not blank, without the white space around it; so every
\* returned name is non-empty and trimmed.
C23_ProjectsAreTrimmedContributions ==
  \A n \in 1..Len(norm) :
    norm[n].fn = "parseProjects" =>
      LET page == norm[n].arg
          projects == norm[n].out
      IN  /\ Len(projects) = Cardinality(Kept(page))
          /\ \A k \in 1..Len(projects) :
               /\ Trimmed(projects[k])
               /\ projects[k] = Stripped(Contribution(page[KeptAt(page, k)]))

\* a page of an option with a value, then one with an empty value and a
\* label with white space before it
C23_Witness ==
  /\ Len(norm) = 1 /\ norm[1].fn = "parseProjects"
  /\ norm[1].arg = <<Option(<<"p">>, <<"P">>), Option(<<>>, <<" ", "q">>)>>
  /\ norm[1].out = <<<<"p">>, <<"q">>>>

(***************************************************************************)
(* Calls in flight together.                                               *)
(***************************************************************************)
\* the run of the call alone, against the answers it got
Alone(task) ==
  IF task.kind = "search"
  THEN Html_search(task.frame.query, task.frame.project, task.frame.searchType,
                   task.frame.language, task.frame.maxResults,
                   IF Len(task.run.replies) = 0 THEN NetErr ELSE task.run.replies[1])
  ELSE Html_getFileContent(task.frame.path, task.frame.project, task.run.replies[1],
                           task.run.replies[Len(task.run.replies)])

\* C24: whatever the interleaving of the calls in flight, a call that has
\* ended has issued the requests, applied the normalisers and ended with
\* the outcome of the same call run alone against the answers it got.
C24_EachCallAsIfAlone ==
  \A t \in DOMAIN tasks : tasks[t].pc = "done" => tasks[t].run = Alone(tasks[t])

\* a search of r and a get-file of project p with its retry, both ended,
\* each having been at an await while the other took a step
C24_Witness ==
  /\ Len(tasks) >= 2
  /\ tasks[1].pc = "done" /\ tasks[1].kind = "search" /\ tasks[1].frame.project = "r"
  /\ tasks[1].overlapped /\ tasks[1].run.outcome.kind = "return"
  /\ Len(tasks[1].run.outcome.value) = 2
  /\ tasks[2].pc = "done" /\ tasks[2].kind = "getFileContent"
  /\ tasks[2].overlapped /\ Len(tasks[2].run.calls) = 2
  /\ tasks[2].run.outcome.kind = "return"

(***************************************************************************)
(* What the operations leave alone.                                        *)
(***************************************************************************)
\* the base URLs a client holds
ClientBaseUrls(c) ==
  IF "apiClient" \in DOMAIN c THEN <<c.baseUrl, c.apiClient.baseUrl>> ELSE <<c.baseUrl>>

EndsWithSlash(url) == Len(url) > 0 /\ url[Len(url)] = "/"

\* C26: no base URL held by the client (or by its API client), and none
\* held by the credential holder for its own requests, ends with "/".
C26_NoTrailingSlash ==
  /\ openGrokClient.assigned =>
       \A i \in 1..Len(ClientBaseUrls(openGrokClient)) :
         ~EndsWithSlash(ClientBaseUrls(openGrokClient)[i])
  /\ authHandler.assigned => ~EndsWithSlash(authHandler.baseUrl)

(***************************************************************************)
(* The project of the search tool.                                         *)
(***************************************************************************)
SearchToolCalled == ToolCalled /\ request.name = "opengrok_search"

WithArguments == "arguments" \in DOMAIN request

\* the request names no project, an empty one or white space
NoProjectGiven ==
  \/ ~WithArguments
  \/ "project" \notin DOMAIN request.arguments
  \/ request.arguments.project \in {"", " "}

\* the handler answered with an error and called no facade operation, so
\* that no request went out
RejectedByHandler ==
  /\ result.kind = "return" /\ "isError" \in DOMAIN result.value /\ result.value.isError
  /\ op = "none" /\ calls = <<>> /\ replies = <<>>

\* the default project is not what the search ran with, unless the request
\* named it
DefaultNotSubstituted ==
  op = "search" => WithArguments /\ "project" \in DOMAIN request.arguments
                     /\ args.project = request.arguments.project

\* C27 (as stated): a search tool call without project, or with an empty or
\* white-space project, is answered by the error 'Project parameter is
\* required ...' with no facade call and no request; the default project
\* never stands in for the project of a search.
C27_SearchWithoutProjectRejected ==
  SearchToolCalled =>
    /\ NoProjectGiven =>
         RejectedByHandler /\ result = Return(ToolError(ProjectParameterRequired))
    /\ DefaultNotSubstituted

\* C27 (amended): the same, the error being 'Project parameter is required
\* ...' when the request has an arguments object; without one the error is
\* that of the destructuring of undefined.
C27_SearchWithoutProjectIsAnError ==
  SearchToolCalled =>
    /\ NoProjectGiven =>
         /\ RejectedByHandler
         /\ WithArguments => result = Return(ToolError(ProjectParameterRequired))
    /\ DefaultNotSubstituted

\* a white-space project and a configured default project
C27_Witness ==
  /\ SearchToolCalled /\ WithArguments
  /\ "project" \in DOMAIN request.arguments /\ request.arguments.project = " "
  /\ config.defaultProject = "dp"
  /\ result = Return(ToolError(ProjectParameterRequired))
  /\ op = "none" /\ calls = <<>>

(***************************************************************************)
(* The order of start-up.                                                  *)
(***************************************************************************)
Logged(text) == \E i \in 1..Len(errors) : errors[i] = text

\* what the adapter that sends the client's requests attaches to them
ClientCredentials(c) ==
  IF "apiClient" \in DOMAIN c THEN c.apiClient.credentials ELSE c.credentials

\* C28: when initializeClientAsync has returned, by whichever branch, the
\* client variable is assigned; the transport is connected only after
\* that, and a tool call is handled only by a connected server, with the
\* client assigned.
C28_ClientAssignedBeforeConnect ==
  /\ pc \in {"initialized", "connected"} => openGrokClient.assigned
  /\ Logged("OpenGrok MCP Server running on stdio") => openGrokClient.assigned
  /\ ToolCalled =>
       /\ pc = "connected" /\ openGrokClient.assigned
       /\ result # Return(ToolError(ClientUndefined))

\* a tool call answered after an initialisation that ended in the catch
\* clause
C28_Witness ==
  /\ ToolCalled /\ request.name = "opengrok_list_projects"
  /\ Logged("Failed to initialize client:")
  /\ openGrokClient.assigned /\ ClientCredentials(openGrokClient) = NoCredentials

(***************************************************************************)
(* The credentials a client attaches.                                      *)
(***************************************************************************)
BasicBranchTaken == Logged("Using basic authentication...")

CookieBranchTaken == Logged("Using OAuth/SSO authentication...")

CaughtInitialize == Logged("Failed to initialize client:")

Configured(s) == s # Undefined /\ s # ""

\* C29: start-up takes the cookie/SSO branch exactly when useOAuth is set
\* or neither username nor password is configured; a client made with the
\* jar uses the jar and no basic-auth credentials; a client made without
\* jar attaches basic-auth credentials exactly when username and password
\* are both non-empty; so a client made by the basic-auth branch sends the
\* configured credentials.
C29_BasicBranchSendsCredentials ==
  /\ pc # "start" =>
       /\ CookieBranchTaken
             <=> (config.useOAuth \/ (~Configured(config.username)
                                        /\ ~Configured(config.password)))
       /\ BasicBranchTaken <=> ~CookieBranchTaken
  /\ (openGrokClient.assigned /\ ~CaughtInitialize) =>
       /\ CookieBranchTaken => ClientCredentials(openGrokClient) = [kind |-> "jar"]
       /\ BasicBranchTaken =>
            /\ ClientCredentials(openGrokClient).kind # "jar"
            /\ ClientCredentials(openGrokClient).kind = "basic"
                  <=> (Configured(config.username) /\ Configured(config.password))
            /\ ClientCredentials(openGrokClient)
                  = [kind |-> "basic", username |-> config.username,
                     password |-> config.password]

(***************************************************************************)
(* The file mcp.json.                                                      *)
(***************************************************************************)
\* what a file has: the top-level keys and the server entries of the
\* configuration it denotes
Denotes(file) == IF file.exists /\ file.value # Null THEN file.value ELSE EmptyObject

ServersOf(file) ==
  IF "servers" \in DOMAIN Denotes(file) /\ Denotes(file).servers # Null
  THEN Denotes(file).servers
  ELSE EmptyObject

\* every top-level key other than servers, and every server entry other
\* than opengrok, that the file had before is in the file after, unchanged
OthersKept(before, after) ==
  /\ \A k \in DOMAIN Denotes(before) \ {"servers"} :
       k \in DOMAIN Denotes(after) /\ Denotes(after)[k] = Denotes(before)[k]
  /\ \A k \in DOMAIN ServersOf(before) \ {"opengrok"} :
       k \in DOMAIN ServersOf(after) /\ ServersOf(after)[k] = ServersOf(before)[k]

\* C30: a call of registerMcpServer keeps every other server entry and
\* every other top-level key of the mcp.json it finds.
C30_OtherEntriesKept == [][OthersKept(mcpJson, mcpJson')]_vars

====
